---- MODULE Spec2Model ----
(***************************************************************************)
(* Gardener discovery server: the two reconcilers that project control-    *)
(* plane objects into the in-memory stores, and the stores themselves.     *)
(*                                                                         *)
(* A string is a sequence of tokens; the token "-" is one dash, so that    *)
(* "--" is two tokens and splitting a name is a computation.  A byte       *)
(* buffer (a document) is a TLA+ string holding its text.                  *)
(***************************************************************************)
EXTENDS Integers, Sequences, FiniteSets, TLC

(***************************************************************************)
(* Bounds of the model.                                                    *)
(***************************************************************************)
\* how many times the control plane may change an object or its health
MaxChanges == 2

\* how many requests the HTTP server is sent
MaxRequests == 1
MaxGardenRequests == 2
MaxRewrites == 3
TicksCounted == 2

\* how many times the control plane may change while Reconciles are compared
MaxObservedChanges == 1

\* how many TLS handshakes call GetCertificate at once
MaxHandshakes == 2

\* how many goroutines share the store, and how many calls each makes
NumGoroutines == 2
MaxCalls == 2

\* the default of --resync-period, in minutes
ResyncPeriod == 30

(***************************************************************************)
(* Strings and maps.                                                       *)
(***************************************************************************)
\* strings.HasPrefix
HasPrefix(s, prefix) ==
    /\ Len(s) >= Len(prefix)
    /\ SubSeq(s, 1, Len(prefix)) = prefix

\* s[i:] starts with "--"
SepAt(s, i) == i + 1 <= Len(s) /\ s[i] = "-" /\ s[i + 1] = "-"

\* strings.Split(s, "--"): cut at the leftmost separator, then go on
RECURSIVE Split(_)
Split(s) ==
    IF \E i \in 1..Len(s) : SepAt(s, i)
    THEN LET i == CHOOSE j \in 1..Len(s) :
                      SepAt(s, j) /\ \A l \in 1..(j - 1) : ~SepAt(s, l)
         IN  <<SubSeq(s, 1, i - 1)>> \o Split(SubSeq(s, i + 2, Len(s)))
    ELSE <<s>>

\* strings.TrimSpace(s) == "": nothing but white space
IsBlank(s) == \A i \in 1..Len(s) : s[i] = " "

\* utils.SplitProjectNameAndShootUID
SplitProjectNameAndShootUID(key) ==
    LET split == Split(key)
    IN  IF Len(split) # 2 \/ IsBlank(split[1]) \/ IsBlank(split[2])
        THEN [err |-> TRUE, projName |-> <<>>, shootUID |-> <<>>]
        ELSE [err |-> FALSE, projName |-> split[1], shootUID |-> split[2]]

\* a Go map without the key k
Without(m, k) == [x \in DOMAIN m \ {k} |-> m[x]]

\* a Go map after m[k] = v
With(m, k, v) == [x \in DOMAIN m \cup {k} |-> IF x = k THEN v ELSE m[x]]

\* the empty Go map
EmptyMap == [x \in {} |-> <<>>]

(***************************************************************************)
(* Well-known label and data keys.                                         *)
(***************************************************************************)
LabelPublicKeys == "authentication.gardener.cloud/public-keys"
LabelPublicKeysServiceAccount == <<"serviceaccount">>
ProjectNameLabel == "project.gardener.cloud/name"
LabelShootName == "shoot.gardener.cloud/name"
LabelShootNamespace == "shoot.gardener.cloud/namespace"
AnnotationAuthenticationIssuer == "authentication.gardener.cloud/issuer"
AnnotationAuthenticationIssuerManaged == <<"managed">>
openidConfigKey == "openid-config"
jwksKey == "jwks"

(***************************************************************************)
(* Documents a secret may carry, and what the JSON decoders make of them.  *)
(***************************************************************************)
CfgHttps == "{\"issuer\":\"https://foo\",\"jwks_uri\":\"https://foo/jwks\"}"
CfgHttpsOther == "{\"issuer\":\"https://bar\",\"jwks_uri\":\"https://bar/jwks\"}"
CfgHttpIssuer == "{\"issuer\":\"http://foo\",\"jwks_uri\":\"https://foo/jwks\"}"
CfgHttpJwksUri == "{\"issuer\":\"https://foo\",\"jwks_uri\":\"http://foo/jwks\"}"
CfgNoFields == "{}"
CfgNotJSON == "issuer: https://foo"
CfgIssuerQuery == "{\"issuer\":\"https://foo/?baz=42\",\"jwks_uri\":\"https://foo/jwks\"}"
CfgIssuerEmptyQuery == "{\"issuer\":\"https://foo/?\",\"jwks_uri\":\"https://foo/jwks\"}"
CfgIssuerFragment == "{\"issuer\":\"https://foo/#baz\",\"jwks_uri\":\"https://foo/jwks\"}"
CfgIssuerControl == "{\"issuer\":\"https://foo.\\n.bar\",\"jwks_uri\":\"https://foo/jwks\"}"
CfgIssuerFtp == "{\"issuer\":\"ftp://foo\",\"jwks_uri\":\"https://foo/jwks\"}"
CfgJwksUriQuery == "{\"issuer\":\"https://foo\",\"jwks_uri\":\"https://foo/jwks?baz=42\"}"
CfgJwksUriControl == "{\"issuer\":\"https://foo\",\"jwks_uri\":\"https://foo.\\n.bar/jwks\"}"
CfgJwksUriFtp == "{\"issuer\":\"https://foo\",\"jwks_uri\":\"ftp://foo/jwks\"}"

JwksPublic == "{\"keys\":[{\"kty\":\"RSA\",\"n\":\"..\",\"e\":\"AQAB\"}]}"
JwksWithPrivate == "{\"keys\":[{\"kty\":\"RSA\",\"n\":\"..\",\"e\":\"AQAB\"},{\"kty\":\"RSA\",\"n\":\"..\",\"e\":\"AQAB\",\"d\":\"..\"}]}"
JwksWithInvalid == "{\"keys\":[{\"kty\":\"RSA\",\"n\":\"..\",\"e\":\"AQAB\"},{\"kty\":\"OKP\",\"x\":\"..\"}]}"
JwksUnparsableKey == "{\"keys\":[{\"kty\":\"RSA\",\"n\":\"\",\"e\":\"\"}]}"
JwksNoKeys == "{\"keys\":[]}"
JwksNotJSON == "keys"

\* json.Unmarshal into the config struct {issuer, jwks_uri}
UnmarshalConfig(doc) ==
    CASE doc = CfgHttps ->
           [err |-> FALSE, Issuer |-> <<"https://", "foo">>, JWKSURI |-> <<"https://", "foo/jwks">>]
      [] doc = CfgHttpsOther ->
           [err |-> FALSE, Issuer |-> <<"https://", "bar">>, JWKSURI |-> <<"https://", "bar/jwks">>]
      [] doc = CfgHttpIssuer ->
           [err |-> FALSE, Issuer |-> <<"http://", "foo">>, JWKSURI |-> <<"https://", "foo/jwks">>]
      [] doc = CfgHttpJwksUri ->
           [err |-> FALSE, Issuer |-> <<"https://", "foo">>, JWKSURI |-> <<"http://", "foo/jwks">>]
      [] doc = CfgNoFields ->
           [err |-> FALSE, Issuer |-> <<>>, JWKSURI |-> <<>>]
      [] doc = CfgIssuerQuery ->
           [err |-> FALSE, Issuer |-> <<"https://", "foo/", "?", "baz=42">>,
            JWKSURI |-> <<"https://", "foo/jwks">>]
      [] doc = CfgIssuerEmptyQuery ->
           [err |-> FALSE, Issuer |-> <<"https://", "foo/", "?">>,
            JWKSURI |-> <<"https://", "foo/jwks">>]
      [] doc = CfgIssuerFragment ->
           [err |-> FALSE, Issuer |-> <<"https://", "foo/", "#", "baz">>,
            JWKSURI |-> <<"https://", "foo/jwks">>]
      [] doc = CfgIssuerControl ->
           [err |-> FALSE, Issuer |-> <<"https://", "foo.", "\n", ".bar">>,
            JWKSURI |-> <<"https://", "foo/jwks">>]
      [] doc = CfgIssuerFtp ->
           [err |-> FALSE, Issuer |-> <<"ftp://", "foo">>, JWKSURI |-> <<"https://", "foo/jwks">>]
      [] doc = CfgJwksUriQuery ->
           [err |-> FALSE, Issuer |-> <<"https://", "foo">>,
            JWKSURI |-> <<"https://", "foo/jwks", "?", "baz=42">>]
      [] doc = CfgJwksUriControl ->
           [err |-> FALSE, Issuer |-> <<"https://", "foo">>,
            JWKSURI |-> <<"https://", "foo.", "\n", ".bar/jwks">>]
      [] doc = CfgJwksUriFtp ->
           [err |-> FALSE, Issuer |-> <<"https://", "foo">>, JWKSURI |-> <<"ftp://", "foo/jwks">>]
      [] OTHER ->
           [err |-> TRUE, Issuer |-> <<>>, JWKSURI |-> <<>>]

PublicKey == [IsPublic |-> TRUE, Valid |-> TRUE]
PrivateKey == [IsPublic |-> FALSE, Valid |-> TRUE]
InvalidKey == [IsPublic |-> TRUE, Valid |-> FALSE]

\* loadKeySet: json.Unmarshal into a jose.JSONWebKeySet
loadKeySet(doc) ==
    CASE doc = JwksPublic -> [err |-> FALSE, Keys |-> <<PublicKey>>]
      [] doc = JwksWithPrivate -> [err |-> FALSE, Keys |-> <<PublicKey, PrivateKey>>]
      [] doc = JwksWithInvalid -> [err |-> FALSE, Keys |-> <<PublicKey, InvalidKey>>]
      [] doc = JwksNoKeys -> [err |-> FALSE, Keys |-> <<>>]
      [] OTHER -> [err |-> TRUE, Keys |-> <<>>]

(***************************************************************************)
(* The control plane as the OIDC reconciler sees it.                       *)
(***************************************************************************)
projectName == <<"abc">>
shootName == <<"my-shoot">>
shootNamespace == <<"garden-abc">>
otherNamespace == <<"garden-xyz">>
shootUID == <<"7a25a9b8">>
otherUID == <<"0c1d2e3f">>

\* the secret of the shoot, named projectName--shootUID
secretName == projectName \o <<"-", "-">> \o shootUID
\* a secret whose name does not split in two
malformedName == projectName \o <<"-", "-">> \o shootUID \o <<"-", "-">> \o <<"old">>

SecretNames == {secretName, malformedName}

Secret(labels, data, deleting) ==
    [DeletionTimestamp |-> deleting, Labels |-> labels, Data |-> data]

goodLabels ==
    (LabelPublicKeys :> LabelPublicKeysServiceAccount)
    @@ (ProjectNameLabel :> projectName)
    @@ (LabelShootName :> shootName)
    @@ (LabelShootNamespace :> shootNamespace)

goodData == (openidConfigKey :> CfgHttps) @@ (jwksKey :> JwksPublic)

goodSecret == Secret(goodLabels, goodData, FALSE)

\* the secrets the control plane may hold under the well-formed name: the good
\* one, and the good one with one thing changed
SecretVariants ==
    {goodSecret,
     Secret(goodLabels, With(goodData, openidConfigKey, CfgHttpsOther), FALSE),
     Secret(goodLabels, goodData, TRUE),
     Secret(goodLabels, Without(goodData, openidConfigKey), FALSE),
     Secret(goodLabels, With(goodData, openidConfigKey, ""), FALSE),
     Secret(goodLabels, Without(goodData, jwksKey), FALSE),
     Secret(goodLabels, With(goodData, jwksKey, ""), FALSE),
     Secret(Without(goodLabels, LabelPublicKeys), goodData, FALSE),
     Secret(With(goodLabels, LabelPublicKeys, <<"wrong">>), goodData, FALSE),
     Secret(Without(goodLabels, ProjectNameLabel), goodData, FALSE),
     Secret(With(goodLabels, ProjectNameLabel, <<"wrong">>), goodData, FALSE),
     Secret(Without(goodLabels, LabelShootName), goodData, FALSE),
     Secret(Without(goodLabels, LabelShootNamespace), goodData, FALSE),
     Secret(With(goodLabels, LabelShootNamespace, otherNamespace), goodData, FALSE),
     Secret(goodLabels, With(goodData, openidConfigKey, CfgHttpIssuer), FALSE),
     Secret(goodLabels, With(goodData, openidConfigKey, CfgHttpJwksUri), FALSE),
     Secret(goodLabels, With(goodData, openidConfigKey, CfgNoFields), FALSE),
     Secret(goodLabels, With(goodData, openidConfigKey, CfgNotJSON), FALSE),
     Secret(goodLabels, With(goodData, jwksKey, JwksWithPrivate), FALSE),
     Secret(goodLabels, With(goodData, jwksKey, JwksWithInvalid), FALSE),
     Secret(goodLabels, With(goodData, jwksKey, JwksUnparsableKey), FALSE),
     Secret(goodLabels, With(goodData, jwksKey, JwksNotJSON), FALSE),
     Secret(goodLabels, With(goodData, jwksKey, JwksNoKeys), FALSE)}

SecretsNamed(name) == IF name = secretName THEN SecretVariants ELSE {goodSecret}

\* Project.Spec.Namespace is a *string: the empty set is nil
Project(name, namespace) == [Name |-> name, Namespace |-> namespace]
ProjectVariants ==
    {Project(projectName, {}),
     Project(projectName, {shootNamespace}),
     Project(projectName, {otherNamespace})}

Shoot(name, namespace, uid, annotations) ==
    [Name |-> name, Namespace |-> namespace, UID |-> uid, Annotations |-> annotations]
managedAnnotations == AnnotationAuthenticationIssuer :> AnnotationAuthenticationIssuerManaged
ShootVariants ==
    {Shoot(shootName, shootNamespace, shootUID, managedAnnotations),
     Shoot(shootName, shootNamespace, otherUID, managedAnnotations),
     Shoot(shootName, shootNamespace, shootUID, EmptyMap),
     Shoot(shootName, shootNamespace, shootUID, AnnotationAuthenticationIssuer :> <<"wrong">>)}

\* client.ObjectKeyFromObject
ShootKey(name, namespace) == <<name, namespace>>

(***************************************************************************)
(* The control plane as the CA reconciler sees it: a configmap in the      *)
(* project namespace, the namespace, its project and the shoot.            *)
(***************************************************************************)
LabelDiscoveryPublic == "discovery.gardener.cloud/public"
LabelUpdateRestriction == "gardener.cloud/update-restriction"
LabelShootUID == "shoot.gardener.cloud/uid"
DataKeyCertificateCA == "ca.crt"

\* the text of ca.crt is a sequence of PEM blocks and of text that is no PEM block
Block(type, headers, bytes) == [pem |-> TRUE, Type |-> type, Headers |-> headers, Bytes |-> bytes]
Text(text) == [pem |-> FALSE, Type |-> "", Headers |-> 0, Bytes |-> text]

caBlock == Block("CERTIFICATE", 0, "ca certificate")
secondCABlock == Block("CERTIFICATE", 0, "second ca certificate")
leafBlock == Block("CERTIFICATE", 0, "leaf certificate")
garbageBlock == Block("CERTIFICATE", 0, "not a certificate")
headerBlock == Block("CERTIFICATE", 1, "ca certificate")
keyBlock == Block("RSA PRIVATE KEY", 0, "rsa private key")
plainText == Text("# shoot ca")

\* x509.ParseCertificate
ParseCertificate(bytes) ==
    CASE bytes = "ca certificate" -> [err |-> FALSE, IsCA |-> TRUE]
      [] bytes = "second ca certificate" -> [err |-> FALSE, IsCA |-> TRUE]
      [] bytes = "leaf certificate" -> [err |-> FALSE, IsCA |-> FALSE]
      [] OTHER -> [err |-> TRUE, IsCA |-> FALSE]

\* pem.Decode: the first PEM block of the text and the rest after it; what is
\* no PEM block is skipped; found is FALSE when no block is left
RECURSIVE pemDecode(_)
pemDecode(text) ==
    IF text = <<>>
    THEN [found |-> FALSE, block |-> plainText, rest |-> <<>>]
    ELSE IF Head(text).pem
    THEN [found |-> TRUE, block |-> Head(text), rest |-> Tail(text)]
    ELSE pemDecode(Tail(text))

configmapName == <<"shoot-ca">>

\* req.NamespacedName
NamespacedName(namespace, name) == [Namespace |-> namespace, Name |-> name]
\* req.NamespacedName.String()
MappingKey(req) == req.Namespace \o <<"/">> \o req.Name

ConfigMapRequests == {NamespacedName(shootNamespace, configmapName)}

ConfigMap(labels, data, deleting) ==
    [DeletionTimestamp |-> deleting, Labels |-> labels, Data |-> data]

goodCMLabels ==
    (LabelDiscoveryPublic :> <<"shoot-ca">>)
    @@ (LabelUpdateRestriction :> <<"true">>)
    @@ (LabelShootName :> shootName)
    @@ (LabelShootUID :> shootUID)

CAData(text) == DataKeyCertificateCA :> text

goodConfigMap == ConfigMap(goodCMLabels, CAData(<<caBlock>>), FALSE)

\* the configmaps the control plane may hold: the good one, and the good one
\* with one thing changed
ConfigMapVariants ==
    {goodConfigMap,
     ConfigMap(goodCMLabels, CAData(<<caBlock, secondCABlock>>), FALSE),
     ConfigMap(goodCMLabels, CAData(<<caBlock>>), TRUE),
     ConfigMap(goodCMLabels, EmptyMap, FALSE),
     ConfigMap(goodCMLabels, CAData(<<>>), FALSE),
     ConfigMap(With(goodCMLabels, LabelDiscoveryPublic, <<"wrong">>), CAData(<<caBlock>>), FALSE),
     ConfigMap(With(goodCMLabels, LabelUpdateRestriction, <<"false">>), CAData(<<caBlock>>), FALSE),
     ConfigMap(Without(goodCMLabels, LabelUpdateRestriction), CAData(<<caBlock>>), FALSE),
     ConfigMap(Without(goodCMLabels, LabelShootName), CAData(<<caBlock>>), FALSE),
     ConfigMap(Without(goodCMLabels, LabelShootUID), CAData(<<caBlock>>), FALSE),
     ConfigMap(With(goodCMLabels, LabelShootUID, otherUID), CAData(<<caBlock>>), FALSE),
     ConfigMap(goodCMLabels, CAData(<<keyBlock>>), FALSE),
     ConfigMap(goodCMLabels, CAData(<<caBlock, keyBlock>>), FALSE),
     ConfigMap(goodCMLabels, CAData(<<headerBlock>>), FALSE),
     ConfigMap(goodCMLabels, CAData(<<garbageBlock>>), FALSE),
     ConfigMap(goodCMLabels, CAData(<<leafBlock>>), FALSE),
     ConfigMap(goodCMLabels, CAData(<<plainText>>), FALSE),
     ConfigMap(goodCMLabels, CAData(<<plainText, caBlock>>), FALSE)}

Namespace(name, labels) == [Name |-> name, Labels |-> labels]
NamespaceVariants ==
    {Namespace(shootNamespace, ProjectNameLabel :> projectName),
     Namespace(shootNamespace, ProjectNameLabel :> <<"xyz">>),
     Namespace(shootNamespace, EmptyMap)}

ResourceKinds == {"secrets", "configmaps", "namespaces", "projects", "shoots"}

(***************************************************************************)
(* State.                                                                  *)
(***************************************************************************)
VARIABLES
    secrets,      \* the secrets of the issuer namespace, by name
    projects,     \* the projects, by name
    shoots,       \* the shoots, by <<name, namespace>>
    apiErr,       \* the resource kind whose GET fails with a non-NotFound error, or "none"
    changes,      \* how many times the control plane has changed
    oidStore,     \* Store.store of the OIDC store: key -> Data
    oidProv,      \* history: for each entry, what the Reconcile that wrote it had read
    oidQueue,     \* the names the work queue of the controller holds
    oidRun,       \* the Reconcile in flight for each name: its position, its locals,
                  \* and once it has returned its result
    configmaps,   \* the configmaps, by request (namespace and name)
    namespaces,   \* the namespaces, by name
    caStore,      \* Store.store of the CA store: key -> Data
    caProv,       \* history: for each entry, the configmap the Reconcile that wrote it had read
    storeMapping, \* Reconciler.storeMapping: namespace/name -> store key
    caQueue,      \* the requests the work queue of the CA controller holds
    caRun,        \* the Reconcile in flight for each configmap: its position, its
                  \* locals, and once it has returned its result
    served,       \* the requests the HTTP server has served, each with the response
                  \* writer it was given and the response writer it left
    heap,         \* the byte buffers of the goroutines that share a store, by address
    entries,      \* Store.store of that store: key -> Data of buffer addresses
    mutex,        \* Store.mutex: the goroutine that holds the write lock (0: none)
                  \* and the goroutines that hold the read lock
    goroutines,   \* the call each goroutine is in: its position, arguments, locals
                  \* and result
    log,          \* history: the writes and deletes in the order they took effect
    constructed,  \* what the construction of that store returned, once it was called
    gardenHandler,\* what workloadidentity.New was given and returned, once it was called
    files,        \* the contents of certFile and keyFile on disk
    dynCert,      \* what dynamiccert.New returned, and DynamicCertificate.certificate
    refresher,    \* the goroutine of the refresh ticker: its position and locals
    handshakes,   \* what GetCertificate returned to the TLS handshakes so far
    ctx,          \* which contexts are cancelled: that of the process, of the manager
                  \* and of the server
    tasks,        \* the two goroutines of run: their position and what their task returned
    main,         \* run itself: its position, what it received and its result
    server,       \* runServer and the goroutine it starts: their positions, whether
                  \* Shutdown was called, and what runServer returns
    reconciled    \* history: for each key, what its last Reconcile left and returned

controlPlane == <<secrets, configmaps, namespaces, projects, shoots, apiErr, changes>>
oidVars == <<oidStore, oidProv, oidQueue, oidRun>>
caVars == <<caStore, caProv, storeMapping, caQueue, caRun>>
\* what no reconciler and no change of the control plane touches
storeVars == <<heap, entries, mutex, goroutines, log, constructed>>
certVars == <<files, dynCert, refresher, handshakes>>
runVars == <<tasks, main, server>>
processVars == <<gardenHandler, certVars, ctx, runVars, reconciled>>
serverVars == <<served, storeVars, processVars>>

(***************************************************************************)
(* The store (internal/store/openidmeta, internal/store).                  *)
(***************************************************************************)
Data(config, jwks) == [Config |-> config, JWKS |-> jwks]

\* copyData: fresh buffers with the bytes of both fields
copyData(data) == [Config |-> data.Config, JWKS |-> data.JWKS]

\* Write that keeps the entry a key already has
WriteIfAbsent(store, key, data) ==
    IF key \in DOMAIN store THEN store ELSE With(store, key, copyData(data))

\* Write that takes away the entry a key already has
WriteOrRemove(store, key, data) ==
    IF key \in DOMAIN store THEN Without(store, key) ELSE With(store, key, copyData(data))

\* Write that puts the data under every key the store has
WriteEveryKey(store, key, data) ==
    [k \in DOMAIN store \cup {key} |-> copyData(data)]

\* Store.Write
Write(store, key, data) == With(store, key, copyData(data))

\* Delete that leaves the store alone
DeleteNothing(store, key) == store

\* Delete that empties the store when its key is absent
DeleteAbsentClears(store, key) ==
    IF key \in DOMAIN store THEN Without(store, key) ELSE EmptyMap

\* Delete that empties the store
DeleteEverything(store, key) == EmptyMap

\* Store.Delete
Delete(store, key) == Without(store, key)

\* Store.Read
Read(store, key) ==
    IF key \in DOMAIN store
    THEN [ok |-> TRUE, data |-> copyData(store[key])]
    ELSE [ok |-> FALSE, data |-> Data("", "")]

\* Store.Len
StoreLen(store) == Cardinality(DOMAIN store)

(***************************************************************************)
(* The construction of a store (internal/store/store.go).  A copy function *)
(* is "nil" or the name of one; a pointer is the empty sequence (nil) or   *)
(* the sequence of what it points to; an error is "nil" or its message.    *)
(***************************************************************************)
ErrNoCopyFunc == "store: copyFunc must not be nil"
CopyFuncs == {"nil", "copyData"}

\* NewStore that does not look at copyFunc
NewStoreUnchecked(copyFunc) ==
    [store |-> <<[store |-> EmptyMap, copyFunc |-> copyFunc]>>, err |-> "nil"]

\* store.NewStore
NewStore(copyFunc) ==
    IF copyFunc = "nil"
    THEN [store |-> <<>>, err |-> ErrNoCopyFunc]
    ELSE [store |-> <<[store |-> EmptyMap, copyFunc |-> copyFunc]>>, err |-> "nil"]

\* store.MustNewStore: panic is the value it panics with, "nil" when it returns
MustNewStore(copyFunc) ==
    LET made == NewStore(copyFunc)
    IN  IF made.err # "nil"
        THEN [store |-> <<>>, err |-> "nil", panic |-> made.err]
        ELSE [store |-> made.store, err |-> "nil", panic |-> "nil"]

notConstructed ==
    [called |-> FALSE, copyFunc |-> "nil", store |-> <<>>, err |-> "nil", panic |-> "nil"]

\* the program calls NewStore or MustNewStore; the store of the goroutines is the
\* one it returns
Construct(constructor, copyFunc) ==
    /\ ~constructed.called
    /\ LET made == IF constructor = "NewStore"
                   THEN NewStore(copyFunc) @@ [panic |-> "nil"]
                   ELSE MustNewStore(copyFunc)
       IN  /\ constructed' = [called |-> TRUE, copyFunc |-> copyFunc,
                              store |-> made.store, err |-> made.err,
                              panic |-> made.panic]
           /\ entries' = IF made.store # <<>> THEN made.store[1].store ELSE entries
    /\ UNCHANGED <<controlPlane, oidVars, caVars, processVars, served,
                   heap, mutex, goroutines, log>>

(***************************************************************************)
(* The store under concurrent use (internal/store/store.go), with Data of  *)
(* two buffers as its values.  A byte slice is an address of the heap; a   *)
(* copy allocates buffers, an assignment of a Data copies addresses.       *)
(* Goroutines call Write, Read, Delete and Len; between two calls the      *)
(* caller may overwrite the buffers it holds.                              *)
(***************************************************************************)
Goroutines == 1..NumGoroutines
StoreKeys == {"foo", "bar"}

\* the values written: the contents of the two buffers
Payloads == {[Config |-> "config1", JWKS |-> "jwks1"],
             [Config |-> "config2", JWKS |-> "jwks2"]}

\* a nil slice, and the zero Data
nil == <<0, 0, "nil">>
zeroData == [Config |-> nil, JWKS |-> nil]

\* the bytes of a slice
Bytes(h, slice) == IF slice \in DOMAIN h THEN h[slice] ELSE ""

\* the buffers of goroutine g: those of the argument of its call (slot 0), those
\* Read returns to it (slot 1), those of the copy its n-th call makes (slot n + 1)
Buffers(g, slot) == [Config |-> <<g, slot, "Config">>, JWKS |-> <<g, slot, "JWKS">>]

\* garbage collection: the buffers an entry of the store or a goroutine refers to
Collect(h, e, gs) ==
    LET live == UNION ({{e[k].Config, e[k].JWKS} : k \in DOMAIN e}
                       \cup {{gs[g].data.Config, gs[g].data.JWKS,
                              gs[g].d.Config, gs[g].d.JWKS} : g \in DOMAIN gs})
    IN  [a \in DOMAIN h \cap live |-> h[a]]

\* a copy that returns the slices it is given
copyFuncAlias(h, data, to) == [heap |-> h, data |-> data]

\* a copy that copies the first buffer only
copyFuncShallow(h, data, to) ==
    [heap |-> With(h, to.Config, Bytes(h, data.Config)),
     data |-> [Config |-> to.Config, JWKS |-> data.JWKS]]

\* s.copyFunc: make([]byte, len) and copy, for each field
copyFunc(h, data, to) ==
    [heap |-> With(With(h, to.Config, Bytes(h, data.Config)), to.JWKS, Bytes(h, data.JWKS)),
     data |-> to]

\* no call in progress and none made; value is history, the bytes the caller of
\* Write passed
idleCall ==
    [pc |-> "idle", op |-> "none", key |-> "", data |-> zeroData, d |-> zeroData,
     ok |-> FALSE, len |-> 0, n |-> 0, value |-> [Config |-> "", JWKS |-> ""]]

\* RLock that does not wait for the writer
CanRLockAlways(m) == TRUE

\* sync.RWMutex: RLock waits for the writer, Lock for the writer and the readers
CanRLock(m) == m.writer = 0
CanLock(m) == m.writer = 0 /\ m.readers = {}

\* a goroutine calls s.Write(key, data) with buffers of its own
CallWrite(g, key, payload) ==
    /\ constructed.store # <<>>
    /\ goroutines[g].pc \in {"idle", "returned", "mutated"}
    /\ goroutines[g].n < MaxCalls
    /\ goroutines' = [goroutines EXCEPT ![g] =
                         [idleCall EXCEPT !.pc = "copy", !.op = "Write", !.key = key,
                                          !.data = Buffers(g, 0), !.value = payload,
                                          !.n = goroutines[g].n + 1]]
    /\ heap' = Collect(With(With(heap, Buffers(g, 0).Config, payload.Config),
                            Buffers(g, 0).JWKS, payload.JWKS),
                       entries, goroutines')
    /\ UNCHANGED <<controlPlane, oidVars, caVars, processVars, constructed, served, entries, mutex, log>>

\* a goroutine calls s.Read(key), s.Delete(key) or s.Len()
Call(g, op, key) ==
    /\ constructed.store # <<>>
    /\ goroutines[g].pc \in {"idle", "returned", "mutated"}
    /\ goroutines[g].n < MaxCalls
    /\ goroutines' = [goroutines EXCEPT ![g] =
                         [idleCall EXCEPT !.pc = "lock", !.op = op, !.key = key,
                                          !.n = goroutines[g].n + 1]]
    /\ heap' = Collect(heap, entries, goroutines')
    /\ UNCHANGED <<controlPlane, oidVars, caVars, processVars, constructed, served, entries, mutex, log>>

\* Store.Write
StoreWrite(g) ==
    LET call == goroutines[g]
    IN  /\ call.op = "Write"
        /\ \/ /\ call.pc = "copy"
              /\ LET copied == copyFunc(heap, call.data, Buffers(g, call.n + 1))
                 IN  /\ heap' = copied.heap
                     /\ goroutines' = [goroutines EXCEPT ![g].pc = "lock",
                                                         ![g].d = copied.data]
              /\ UNCHANGED <<entries, mutex, log>>
           \/ /\ call.pc = "lock"
              /\ CanLock(mutex)
              /\ mutex' = [mutex EXCEPT !.writer = g]
              /\ goroutines' = [goroutines EXCEPT ![g].pc = "store"]
              /\ UNCHANGED <<heap, entries, log>>
           \/ /\ call.pc = "store"
              /\ entries' = With(entries, call.key, call.d)
              /\ log' = Append(log, [op |-> "Write", key |-> call.key, value |-> call.value])
              /\ goroutines' = [goroutines EXCEPT ![g].pc = "unlock"]
              /\ heap' = Collect(heap, entries', goroutines')
              /\ UNCHANGED mutex
           \/ /\ call.pc = "unlock"
              /\ mutex' = [mutex EXCEPT !.writer = 0]
              /\ goroutines' = [goroutines EXCEPT ![g].pc = "returned"]
              /\ UNCHANGED <<heap, entries, log>>
        /\ UNCHANGED <<controlPlane, oidVars, caVars, processVars, constructed, served>>

\* Store.Read; data, ok := s.store[key] reads the entry a field at a time, and
\* the copy follows the second read
StoreRead(g) ==
    LET call == goroutines[g]
    IN  /\ call.op = "Read"
        /\ \/ /\ call.pc = "lock"
              /\ CanRLock(mutex)
              /\ mutex' = [mutex EXCEPT !.readers = @ \cup {g}]
              /\ goroutines' = [goroutines EXCEPT ![g].pc = "load"]
              /\ UNCHANGED heap
           \/ /\ call.pc = "load"
              /\ goroutines' = [goroutines EXCEPT
                     ![g].pc = "loadJWKS",
                     ![g].ok = call.key \in DOMAIN entries,
                     ![g].data.Config = IF call.key \in DOMAIN entries
                                        THEN entries[call.key].Config ELSE nil]
              /\ UNCHANGED <<heap, mutex>>
           \/ /\ call.pc = "loadJWKS"
              /\ LET data == [call.data EXCEPT !.JWKS = IF call.key \in DOMAIN entries
                                                        THEN entries[call.key].JWKS
                                                        ELSE nil]
                     copied == IF call.ok
                               THEN copyFunc(heap, data, Buffers(g, 1))
                               ELSE [heap |-> heap, data |-> zeroData]
                 IN  /\ heap' = copied.heap
                     /\ goroutines' = [goroutines EXCEPT ![g].pc = "unlock",
                                                         ![g].data = zeroData,
                                                         ![g].d = copied.data]
              /\ UNCHANGED mutex
           \/ /\ call.pc = "unlock"
              /\ mutex' = [mutex EXCEPT !.readers = @ \ {g}]
              /\ goroutines' = [goroutines EXCEPT ![g].pc = "returned"]
              /\ UNCHANGED heap
        /\ UNCHANGED <<controlPlane, oidVars, caVars, processVars, constructed, served, entries, log>>

\* Store.Delete
StoreDelete(g) ==
    LET call == goroutines[g]
    IN  /\ call.op = "Delete"
        /\ \/ /\ call.pc = "lock"
              /\ CanLock(mutex)
              /\ mutex' = [mutex EXCEPT !.writer = g]
              /\ goroutines' = [goroutines EXCEPT ![g].pc = "delete"]
              /\ UNCHANGED <<heap, entries, log>>
           \/ /\ call.pc = "delete"
              /\ entries' = Delete(entries, call.key)
              /\ log' = Append(log, [op |-> "Delete", key |-> call.key, value |-> <<>>])
              /\ goroutines' = [goroutines EXCEPT ![g].pc = "unlock"]
              /\ heap' = Collect(heap, entries', goroutines')
              /\ UNCHANGED mutex
           \/ /\ call.pc = "unlock"
              /\ mutex' = [mutex EXCEPT !.writer = 0]
              /\ goroutines' = [goroutines EXCEPT ![g].pc = "returned"]
              /\ UNCHANGED <<heap, entries, log>>
        /\ UNCHANGED <<controlPlane, oidVars, caVars, processVars, constructed, served>>

\* Store.Len (a method of the store, not the operator StoreLen of a map)
StoreLenCall(g) ==
    LET call == goroutines[g]
    IN  /\ call.op = "Len"
        /\ \/ /\ call.pc = "lock"
              /\ CanRLock(mutex)
              /\ mutex' = [mutex EXCEPT !.readers = @ \cup {g}]
              /\ goroutines' = [goroutines EXCEPT ![g].pc = "len"]
           \/ /\ call.pc = "len"
              /\ goroutines' = [goroutines EXCEPT ![g].pc = "unlock",
                                                  ![g].len = StoreLen(entries)]
              /\ UNCHANGED mutex
           \/ /\ call.pc = "unlock"
              /\ mutex' = [mutex EXCEPT !.readers = @ \ {g}]
              /\ goroutines' = [goroutines EXCEPT ![g].pc = "returned"]
        /\ UNCHANGED <<controlPlane, oidVars, caVars, processVars, constructed, served, heap, entries, log>>

\* the caller overwrites the buffers it passed to Write, or those Read returned
CallerMutates(g) ==
    LET call == goroutines[g]
        held == IF call.op = "Write" THEN call.data ELSE call.d
    IN  /\ call.pc = "returned"
        /\ call.op = "Write" \/ (call.op = "Read" /\ call.ok)
        /\ heap' = With(With(heap, held.Config, "overwritten"), held.JWKS, "overwritten")
        /\ goroutines' = [goroutines EXCEPT ![g].pc = "mutated"]
        /\ UNCHANGED <<controlPlane, oidVars, caVars, processVars, constructed, served, entries, mutex, log>>

(***************************************************************************)
(* The watch of the OIDC controller (reconciler/openidmeta/add.go).        *)
(***************************************************************************)
isRelevantSecret(obj) ==
    /\ LabelPublicKeys \in DOMAIN obj.Labels
    /\ obj.Labels[LabelPublicKeys] = LabelPublicKeysServiceAccount

\* UpdateFunc that looks at the new object only
isRelevantSecretUpdateNewOnly(oldObj, newObj) == isRelevantSecret(newObj)

isRelevantSecretUpdate(oldObj, newObj) ==
    isRelevantSecret(newObj) \/ isRelevantSecret(oldObj)

\* the queue after an event for name that passed (or not) the predicate
Enqueue(queue, name, relevant) == IF relevant THEN queue \cup {name} ELSE queue

(***************************************************************************)
(* The control plane changes.                                              *)
(***************************************************************************)
CreateSecret(name, obj) ==
    /\ changes < MaxChanges
    /\ name \notin DOMAIN secrets
    /\ ~obj.DeletionTimestamp
    /\ secrets' = With(secrets, name, obj)
    /\ oidQueue' = Enqueue(oidQueue, name, isRelevantSecret(obj))
    /\ changes' = changes + 1
    /\ UNCHANGED <<configmaps, namespaces, projects, shoots, apiErr, serverVars>>
    /\ UNCHANGED <<oidStore, oidProv, oidRun, caVars>>

UpdateSecret(name, obj) ==
    /\ changes < MaxChanges
    /\ name \in DOMAIN secrets
    /\ obj # secrets[name]
    /\ secrets[name].DeletionTimestamp => obj.DeletionTimestamp
    /\ secrets' = With(secrets, name, obj)
    /\ oidQueue' = Enqueue(oidQueue, name, isRelevantSecretUpdate(secrets[name], obj))
    /\ changes' = changes + 1
    /\ UNCHANGED <<configmaps, namespaces, projects, shoots, apiErr, serverVars>>
    /\ UNCHANGED <<oidStore, oidProv, oidRun, caVars>>

DeleteSecret(name) ==
    /\ changes < MaxChanges
    /\ name \in DOMAIN secrets
    /\ secrets' = Without(secrets, name)
    /\ oidQueue' = Enqueue(oidQueue, name, isRelevantSecret(secrets[name]))
    /\ changes' = changes + 1
    /\ UNCHANGED <<configmaps, namespaces, projects, shoots, apiErr, serverVars>>
    /\ UNCHANGED <<oidStore, oidProv, oidRun, caVars>>

\* projects and shoots are not watched: no event reaches the queue
ApplyProject(obj) ==
    /\ changes < MaxChanges
    /\ projects' = With(projects, obj.Name, obj)
    /\ projects' # projects
    /\ changes' = changes + 1
    /\ UNCHANGED <<secrets, configmaps, namespaces, shoots, apiErr, oidVars, caVars, serverVars>>

DeleteProject(name) ==
    /\ changes < MaxChanges
    /\ name \in DOMAIN projects
    /\ projects' = Without(projects, name)
    /\ changes' = changes + 1
    /\ UNCHANGED <<secrets, configmaps, namespaces, shoots, apiErr, oidVars, caVars, serverVars>>

ApplyShoot(obj) ==
    /\ changes < MaxChanges
    /\ shoots' = With(shoots, ShootKey(obj.Name, obj.Namespace), obj)
    /\ shoots' # shoots
    /\ changes' = changes + 1
    /\ UNCHANGED <<secrets, configmaps, namespaces, projects, apiErr, oidVars, caVars, serverVars>>

DeleteShoot(key) ==
    /\ changes < MaxChanges
    /\ key \in DOMAIN shoots
    /\ shoots' = Without(shoots, key)
    /\ changes' = changes + 1
    /\ UNCHANGED <<secrets, configmaps, namespaces, projects, apiErr, oidVars, caVars, serverVars>>

\* the API server starts or stops failing the GETs of one kind
SetAPIErr(kind) ==
    /\ changes < MaxChanges
    /\ kind # apiErr
    /\ apiErr' = kind
    /\ changes' = changes + 1
    /\ UNCHANGED <<secrets, configmaps, namespaces, projects, shoots, oidVars, caVars, serverVars>>

(***************************************************************************)
(* The OIDC reconciler (reconciler/openidmeta/metadata.go).                *)
(*                                                                         *)
(* Reconcile reads the control plane three times (secret, project, shoot); *)
(* the control plane may change between two reads, so each read is a step. *)
(***************************************************************************)
noSecret == Secret(EmptyMap, EmptyMap, FALSE)
noProject == Project(<<>>, {})
idleRun ==
    [pc |-> "idle", secret |-> noSecret, project |-> noProject,
     result |-> [err |-> FALSE, RequeueAfter |-> 0], held |-> FALSE]

\* the call has returned: its locals are gone, and the controller holds its result;
\* held is history: whether the store held the entry of the call before its last step
Returned(result, held) ==
    [pc |-> "returned", secret |-> noSecret, project |-> noProject,
     result |-> result, held |-> held]

\* reconcile.Result{} and ctrl.Result{RequeueAfter: r.ResyncPeriod}, with the error
Result(err, requeueAfter) == [err |-> err, RequeueAfter |-> requeueAfter]

\* the checks on the secret alone, in the order of the code: the log message
\* of the first one that fails, or "ok"
SecretChecks(secret, reqName) ==
    LET labels == secret.Labels
        split == SplitProjectNameAndShootUID(reqName)
    IN  CASE secret.DeletionTimestamp ->
               "deletion timestamp present"
          [] openidConfigKey \notin DOMAIN secret.Data \/ secret.Data[openidConfigKey] = "" ->
               "secret is missing data key openid-config"
          [] jwksKey \notin DOMAIN secret.Data \/ secret.Data[jwksKey] = "" ->
               "secret is missing data key jwks"
          [] LabelPublicKeys \notin DOMAIN labels
             \/ labels[LabelPublicKeys] # LabelPublicKeysServiceAccount ->
               "secret does not have expected label public-keys"
          [] ProjectNameLabel \notin DOMAIN labels ->
               "secret does not have expected label project"
          [] LabelShootName \notin DOMAIN labels ->
               "secret does not have expected label shoot name"
          [] LabelShootNamespace \notin DOMAIN labels ->
               "secret does not have expected label shoot namespace"
          [] split.err ->
               "secret name is not in the correct format"
          [] labels[ProjectNameLabel] # split.projName ->
               "project name does not match between secret name and the project label"
          [] OTHER -> "ok"

\* ProjectChecks without the comparison of the namespaces
ProjectChecksNilOnly(project, secret) ==
    IF project.Namespace = {} THEN "project spec.namespace is nil" ELSE "ok"

\* the checks on the project that was read
ProjectChecks(project, secret) ==
    CASE project.Namespace = {} ->
           "project spec.namespace is nil"
      [] secret.Labels[LabelShootNamespace] \notin project.Namespace ->
           "secret shoot namespace label does not match project namespace"
      [] OTHER -> "ok"

\* the checks on the shoot that was read
ShootChecks(shoot, reqName) ==
    CASE SplitProjectNameAndShootUID(reqName).shootUID # shoot.UID ->
           "shoot UID is different in spec and in secret name"
      [] AnnotationAuthenticationIssuer \notin DOMAIN shoot.Annotations
         \/ shoot.Annotations[AnnotationAuthenticationIssuer] # AnnotationAuthenticationIssuerManaged ->
           "shoot managed issuer annotation is missing"
      [] OTHER -> "ok"

\* KeysCheck without k.Valid()
KeysCheckPublicOnly(keys) ==
    IF \E i \in 1..Len(keys) : ~keys[i].IsPublic
    THEN "found a non public key in JWKS"
    ELSE "ok"

\* the loop over keySet.Keys: the first key that is not public or not valid
KeysCheck(keys) ==
    IF \E i \in 1..Len(keys) : ~keys[i].IsPublic \/ ~keys[i].Valid
    THEN LET i == CHOOSE j \in 1..Len(keys) :
                      /\ ~keys[j].IsPublic \/ ~keys[j].Valid
                      /\ \A l \in 1..(j - 1) : keys[l].IsPublic /\ keys[l].Valid
         IN  IF ~keys[i].IsPublic
             THEN "found a non public key in JWKS"
             ELSE "found an invalid key in JWKS"
    ELSE "ok"

\* the checks on the two documents of the secret
PayloadChecks(secret) ==
    LET cfg == UnmarshalConfig(secret.Data[openidConfigKey])
        keySet == loadKeySet(secret.Data[jwksKey])
    IN  CASE cfg.err ->
               "cannot unmarshal openid-config"
          [] ~HasPrefix(cfg.Issuer, <<"https://">>) \/ ~HasPrefix(cfg.JWKSURI, <<"https://">>) ->
               "either issuer or jwks_uri does not start with https://"
          [] keySet.err ->
               "failed parsing JWKS"
          [] OTHER -> KeysCheck(keySet.Keys)

\* what the controller does with a return: an error or a RequeueAfter puts the
\* request back on the queue, an empty result forgets it
Requeue(queue, name, result) ==
    IF result.err \/ result.RequeueAfter > 0 THEN queue \cup {name} ELSE queue

\* the worker takes a request from the queue and calls Reconcile
Start(name) ==
    /\ name \in oidQueue
    /\ oidRun[name].pc = "idle"
    /\ oidQueue' = oidQueue \ {name}
    /\ oidRun' = [oidRun EXCEPT ![name].pc = "getSecret"]
    /\ UNCHANGED <<controlPlane, serverVars, caVars, oidStore, oidProv>>

\* the controller takes the result of the call: see Requeue
Done(name) ==
    /\ oidRun[name].pc = "returned"
    /\ oidQueue' = Requeue(oidQueue, name, oidRun[name].result)
    /\ oidRun' = [oidRun EXCEPT ![name] = idleRun]
    /\ UNCHANGED <<controlPlane, serverVars, caVars, oidStore, oidProv>>

\* Reconcile returns after r.Store.Delete(req.Name)
ReturnDeleted(name) ==
    /\ oidStore' = Delete(oidStore, name)
    /\ oidProv' = Without(oidProv, name)
    /\ oidRun' = [oidRun EXCEPT ![name] =
                     Returned(Result(FALSE, 0), name \in DOMAIN oidStore)]
    /\ UNCHANGED <<controlPlane, serverVars, caVars, oidQueue>>

\* every error of a GET taken for NotFound
ReturnErrorAsNotFound(name) == ReturnDeleted(name)

\* Reconcile returns the error of a GET
ReturnError(name) ==
    /\ oidRun' = [oidRun EXCEPT ![name] =
                     Returned(Result(TRUE, 0), name \in DOMAIN oidStore)]
    /\ UNCHANGED <<controlPlane, serverVars, caVars, oidStore, oidProv, oidQueue>>

\* Reconcile returns after r.Store.Write(req.Name, ...)
ReturnWritten(name, secret, project, shoot) ==
    /\ oidStore' = Write(oidStore, name,
                         Data(secret.Data[openidConfigKey], secret.Data[jwksKey]))
    /\ oidProv' = With(oidProv, name,
                       [secret |-> secret, project |-> project, shoot |-> shoot])
    /\ oidRun' = [oidRun EXCEPT ![name] =
                     Returned(Result(FALSE, ResyncPeriod), name \in DOMAIN oidStore)]
    /\ UNCHANGED <<controlPlane, serverVars, caVars, oidQueue>>

\* Get of the secret, and the checks on it
ReconcileSecret(name) ==
    /\ oidRun[name].pc = "getSecret"
    /\ IF apiErr = "secrets"
       THEN ReturnError(name)
       ELSE IF name \notin DOMAIN secrets
       THEN ReturnDeleted(name)
       ELSE IF SecretChecks(secrets[name], name) # "ok"
       THEN ReturnDeleted(name)
       ELSE /\ oidRun' = [oidRun EXCEPT ![name].pc = "getProject",
                                         ![name].secret = secrets[name]]
            /\ UNCHANGED <<controlPlane, serverVars, caVars, oidStore, oidProv, oidQueue>>

\* Get of the project the secret is labelled with, and the checks on it
ReconcileProject(name) ==
    LET secret == oidRun[name].secret
        projName == secret.Labels[ProjectNameLabel]
    IN  /\ oidRun[name].pc = "getProject"
        /\ IF apiErr = "projects"
           THEN ReturnError(name)
           ELSE IF projName \notin DOMAIN projects
           THEN ReturnDeleted(name)
           ELSE IF ProjectChecks(projects[projName], secret) # "ok"
           THEN ReturnDeleted(name)
           ELSE /\ oidRun' = [oidRun EXCEPT ![name].pc = "getShoot",
                                             ![name].project = projects[projName]]
                /\ UNCHANGED <<controlPlane, serverVars, caVars, oidStore, oidProv, oidQueue>>

\* Get of the shoot, the checks on it and on the documents, and the write
ReconcileShoot(name) ==
    LET secret == oidRun[name].secret
        key == ShootKey(secret.Labels[LabelShootName], secret.Labels[LabelShootNamespace])
    IN  /\ oidRun[name].pc = "getShoot"
        /\ IF apiErr = "shoots"
           THEN ReturnError(name)
           ELSE IF key \notin DOMAIN shoots
           THEN ReturnDeleted(name)
           ELSE IF ShootChecks(shoots[key], name) # "ok"
           THEN ReturnDeleted(name)
           ELSE IF PayloadChecks(secret) # "ok"
           THEN ReturnDeleted(name)
           ELSE ReturnWritten(name, secret, oidRun[name].project, shoots[key])

(***************************************************************************)
(* The watch of the CA controller (reconciler/certificate/add.go) and the  *)
(* changes of the objects only the CA reconciler reads.                    *)
(***************************************************************************)
\* a missing label reads as the empty string
Label(labels, key) == IF key \in DOMAIN labels THEN labels[key] ELSE <<>>

isRelevantConfigMap(obj) ==
    /\ Label(obj.Labels, LabelDiscoveryPublic) = <<"shoot-ca">>
    /\ Label(obj.Labels, LabelUpdateRestriction) = <<"true">>

isRelevantConfigMapUpdate(oldObj, newObj) ==
    isRelevantConfigMap(newObj) \/ isRelevantConfigMap(oldObj)

CreateConfigMap(req, obj) ==
    /\ changes < MaxChanges
    /\ req \notin DOMAIN configmaps
    /\ ~obj.DeletionTimestamp
    /\ configmaps' = With(configmaps, req, obj)
    /\ caQueue' = Enqueue(caQueue, req, isRelevantConfigMap(obj))
    /\ changes' = changes + 1
    /\ UNCHANGED <<secrets, namespaces, projects, shoots, apiErr, oidVars, serverVars>>
    /\ UNCHANGED <<caStore, caProv, storeMapping, caRun>>

UpdateConfigMap(req, obj) ==
    /\ changes < MaxChanges
    /\ req \in DOMAIN configmaps
    /\ obj # configmaps[req]
    /\ configmaps[req].DeletionTimestamp => obj.DeletionTimestamp
    /\ configmaps' = With(configmaps, req, obj)
    /\ caQueue' = Enqueue(caQueue, req, isRelevantConfigMapUpdate(configmaps[req], obj))
    /\ changes' = changes + 1
    /\ UNCHANGED <<secrets, namespaces, projects, shoots, apiErr, oidVars, serverVars>>
    /\ UNCHANGED <<caStore, caProv, storeMapping, caRun>>

DeleteConfigMap(req) ==
    /\ changes < MaxChanges
    /\ req \in DOMAIN configmaps
    /\ configmaps' = Without(configmaps, req)
    /\ caQueue' = Enqueue(caQueue, req, isRelevantConfigMap(configmaps[req]))
    /\ changes' = changes + 1
    /\ UNCHANGED <<secrets, namespaces, projects, shoots, apiErr, oidVars, serverVars>>
    /\ UNCHANGED <<caStore, caProv, storeMapping, caRun>>

\* namespaces are not watched
ApplyNamespace(obj) ==
    /\ changes < MaxChanges
    /\ namespaces' = With(namespaces, obj.Name, obj)
    /\ namespaces' # namespaces
    /\ changes' = changes + 1
    /\ UNCHANGED <<secrets, configmaps, projects, shoots, apiErr, oidVars, caVars, serverVars>>

DeleteNamespace(name) ==
    /\ changes < MaxChanges
    /\ name \in DOMAIN namespaces
    /\ namespaces' = Without(namespaces, name)
    /\ changes' = changes + 1
    /\ UNCHANGED <<secrets, configmaps, projects, shoots, apiErr, oidVars, caVars, serverVars>>

(***************************************************************************)
(* The CA reconciler (reconciler/certificate/reconciler.go).               *)
(*                                                                         *)
(* Reconcile reads the configmap, its namespace, the project and the       *)
(* shoot; each read is a step.  createMapping and deleteMapping hold the   *)
(* mutex of the reconciler, so each is one step with the return.           *)
(***************************************************************************)
noConfigMap == ConfigMap(EmptyMap, EmptyMap, FALSE)
idleCARun ==
    [pc |-> "idle", configmap |-> noConfigMap, projectName |-> <<>>,
     result |-> [err |-> FALSE, RequeueAfter |-> 0], held |-> FALSE]

\* the call has returned: see Returned
CAReturned(result, held) ==
    [pc |-> "returned", configmap |-> noConfigMap, projectName |-> <<>>,
     result |-> result, held |-> held]

\* certificate.Copy
Copy(data) == [CABundle |-> data.CABundle]

\* store.Store[certificate.Data].Write
CAWrite(store, key, data) == With(store, key, Copy(data))

\* r.storeMapping[key]: the zero value, the empty string, for a key not in the map
MapGet(m, key) == IF key \in DOMAIN m THEN m[key] ELSE <<>>

\* json.Marshal of struct{Certs string `json:"certs"`}: the text as one JSON string
MarshalBundle(text) == <<"{\"certs\":", [jsonString |-> text], "}">>

\* the checks on the configmap alone
ConfigMapChecks(configmap) ==
    CASE configmap.DeletionTimestamp ->
           "deletion timestamp present"
      [] DataKeyCertificateCA \notin DOMAIN configmap.Data
         \/ Len(configmap.Data[DataKeyCertificateCA]) = 0 ->
           "configmap is missing data key ca.crt"
      [] Label(configmap.Labels, LabelDiscoveryPublic) # <<"shoot-ca">>
         \/ Label(configmap.Labels, LabelUpdateRestriction) # <<"true">> ->
           "configmap does not have expected labels or their value is incorrect"
      [] OTHER -> "ok"

\* the checks on the namespace that was read
NamespaceChecks(namespace) ==
    IF ProjectNameLabel \notin DOMAIN namespace.Labels
    THEN "namespace does not have expected label"
    ELSE "ok"

\* the checks on the project that was read, and on the shoot labels of the configmap
CAProjectChecks(project, namespaceName, configmap) ==
    CASE project.Namespace = {} ->
           "project spec.namespace is nil"
      [] namespaceName \notin project.Namespace ->
           "namespace name does not match project namespace"
      [] LabelShootName \notin DOMAIN configmap.Labels ->
           "configmap does not have expected label shoot name"
      [] LabelShootUID \notin DOMAIN configmap.Labels ->
           "configmap does not have expected label shoot uid"
      [] OTHER -> "ok"

\* PemChecks that looks at the first block only
PemChecksFirstBlock(certs) ==
    LET decoded == pemDecode(certs)
        block == decoded.block
        cert == ParseCertificate(block.Bytes)
    IN  CASE ~decoded.found -> "ok"
          [] block.Type # "CERTIFICATE" -> "block type is not CERTIFICATE"
          [] block.Headers > 0 -> "block headers are not expected"
          [] cert.err -> "failed to parse certificate"
          [] ~cert.IsCA -> "certificate is not a CA"
          [] OTHER -> "ok"

\* the loop over the PEM blocks of ca.crt
RECURSIVE PemChecks(_)
PemChecks(certs) ==
    LET decoded == pemDecode(certs)
        block == decoded.block
        cert == ParseCertificate(block.Bytes)
    IN  CASE ~decoded.found -> "ok"
          [] block.Type # "CERTIFICATE" -> "block type is not CERTIFICATE"
          [] block.Headers > 0 -> "block headers are not expected"
          [] cert.err -> "failed to parse certificate"
          [] ~cert.IsCA -> "certificate is not a CA"
          [] OTHER -> PemChecks(decoded.rest)

\* the checks on the shoot that was read, and on ca.crt
CAShootChecks(shoot, configmap) ==
    IF configmap.Labels[LabelShootUID] # shoot.UID
    THEN "shoot UID is different in spec and configmap label"
    ELSE PemChecks(configmap.Data[DataKeyCertificateCA])

\* the store after createMapping
createMappingStore(store, dataKey, data) == CAWrite(store, dataKey, [CABundle |-> data])

\* createMapping that stores the data and forgets the key
createMappingMapForgets(mapping, mapKey, dataKey) == mapping

\* the mapping after createMapping
createMappingMap(mapping, mapKey, dataKey) == With(mapping, mapKey, dataKey)

\* deleteMapping that deletes under the key of the mapping
deleteMappingStoreByMapKey(store, mapping, key) == Delete(store, key)

\* the store after deleteMapping
deleteMappingStore(store, mapping, key) == Delete(store, MapGet(mapping, key))

\* the mapping after deleteMapping
deleteMappingMap(mapping, key) == Without(mapping, key)

CAStart(req) ==
    /\ req \in caQueue
    /\ caRun[req].pc = "idle"
    /\ caQueue' = caQueue \ {req}
    /\ caRun' = [caRun EXCEPT ![req].pc = "getConfigMap"]
    /\ UNCHANGED <<controlPlane, serverVars, oidVars, caStore, caProv, storeMapping>>

\* the controller takes the result of the call: see Requeue
CADone(req) ==
    /\ caRun[req].pc = "returned"
    /\ caQueue' = Requeue(caQueue, req, caRun[req].result)
    /\ caRun' = [caRun EXCEPT ![req] = idleCARun]
    /\ UNCHANGED <<controlPlane, serverVars, oidVars, caStore, caProv, storeMapping>>

\* Reconcile returns after r.deleteMapping(mappingKey)
CAReturnDeleted(req) ==
    /\ caStore' = deleteMappingStore(caStore, storeMapping, MappingKey(req))
    /\ caProv' = Without(caProv, MapGet(storeMapping, MappingKey(req)))
    /\ storeMapping' = deleteMappingMap(storeMapping, MappingKey(req))
    /\ caRun' = [caRun EXCEPT ![req] =
                    CAReturned(Result(FALSE, 0),
                               MapGet(storeMapping, MappingKey(req)) \in DOMAIN caStore)]
    /\ UNCHANGED <<controlPlane, serverVars, oidVars, caQueue>>

\* Reconcile returns the error of a GET
CAReturnError(req) ==
    /\ caRun' = [caRun EXCEPT ![req] =
                    CAReturned(Result(TRUE, 0),
                               MapGet(storeMapping, MappingKey(req)) \in DOMAIN caStore)]
    /\ UNCHANGED <<controlPlane, serverVars, oidVars, caStore, caProv, storeMapping, caQueue>>

\* Reconcile returns after r.createMapping(mappingKey, projectName--shootUID, payload)
CAReturnWritten(req, configmap, shoot, dataKey) ==
    /\ caStore' = createMappingStore(caStore, dataKey,
                                     MarshalBundle(configmap.Data[DataKeyCertificateCA]))
    /\ caProv' = With(caProv, dataKey,
                      [req |-> req, configmap |-> configmap,
                       projectName |-> caRun[req].projectName, shoot |-> shoot])
    /\ storeMapping' = createMappingMap(storeMapping, MappingKey(req), dataKey)
    /\ caRun' = [caRun EXCEPT ![req] =
                    CAReturned(Result(FALSE, ResyncPeriod),
                               MapGet(storeMapping, MappingKey(req)) \in DOMAIN caStore)]
    /\ UNCHANGED <<controlPlane, serverVars, oidVars, caQueue>>

CAContinue(req, run) ==
    /\ caRun' = [caRun EXCEPT ![req] = run]
    /\ UNCHANGED <<controlPlane, serverVars, oidVars, caStore, caProv, storeMapping, caQueue>>

\* Get of the configmap, and the checks on it
CAReconcileConfigMap(req) ==
    /\ caRun[req].pc = "getConfigMap"
    /\ IF apiErr = "configmaps"
       THEN CAReturnError(req)
       ELSE IF req \notin DOMAIN configmaps
       THEN CAReturnDeleted(req)
       ELSE IF ConfigMapChecks(configmaps[req]) # "ok"
       THEN CAReturnDeleted(req)
       ELSE CAContinue(req, [caRun[req] EXCEPT !.pc = "getNamespace",
                                               !.configmap = configmaps[req]])

\* Get of the namespace of the request, and the check on it
CAReconcileNamespace(req) ==
    /\ caRun[req].pc = "getNamespace"
    /\ IF apiErr = "namespaces"
       THEN CAReturnError(req)
       ELSE IF req.Namespace \notin DOMAIN namespaces
       THEN CAReturnDeleted(req)
       ELSE IF NamespaceChecks(namespaces[req.Namespace]) # "ok"
       THEN CAReturnDeleted(req)
       ELSE CAContinue(req, [caRun[req] EXCEPT
                                !.pc = "getProject",
                                !.projectName = namespaces[req.Namespace].Labels[ProjectNameLabel]])

\* Get of the project the namespace is labelled with, and the checks after it
CAReconcileProject(req) ==
    LET name == caRun[req].projectName
    IN  /\ caRun[req].pc = "getProject"
        /\ IF apiErr = "projects"
           THEN CAReturnError(req)
           ELSE IF name \notin DOMAIN projects
           THEN CAReturnDeleted(req)
           ELSE IF CAProjectChecks(projects[name], req.Namespace, caRun[req].configmap) # "ok"
           THEN CAReturnDeleted(req)
           ELSE CAContinue(req, [caRun[req] EXCEPT !.pc = "getShoot"])

\* Get of the shoot, the checks on it and on ca.crt, and the write
CAReconcileShoot(req) ==
    LET configmap == caRun[req].configmap
        key == ShootKey(configmap.Labels[LabelShootName], req.Namespace)
    IN  /\ caRun[req].pc = "getShoot"
        /\ IF apiErr = "shoots"
           THEN CAReturnError(req)
           ELSE IF key \notin DOMAIN shoots
           THEN CAReturnDeleted(req)
           ELSE IF CAShootChecks(shoots[key], configmap) # "ok"
           THEN CAReturnDeleted(req)
           ELSE CAReturnWritten(req, configmap, shoots[key],
                                caRun[req].projectName \o <<"-", "-">> \o configmap.Labels[LabelShootUID])

(***************************************************************************)
(* The handler of a request that reads a store (internal/handler).         *)
(*                                                                         *)
(* The handler writes no state: a request served in a state is the         *)
(* operator applied to the store of that state.                            *)
(***************************************************************************)
\* uuid.Parse that takes any text
uuidParseAnything(text) == [err |-> FALSE]

\* uuid.Parse: the text is one token and the token is a UUID
uuidParse(text) == [err |-> ~(Len(text) = 1 /\ text[1] \in {shootUID[1], otherUID[1]})]

\* store.Store[certificate.Data].Read
CARead(store, key) ==
    IF key \in DOMAIN store
    THEN [ok |-> TRUE, data |-> Copy(store[key])]
    ELSE [ok |-> FALSE, data |-> [CABundle |-> <<>>]]

\* A response writer is what the handler has done to it: the header map (each
\* name with the list of its values), the status written (0: none yet), the byte
\* slices written to the body, and, as history, the keys read from the store.
\* httptest.NewRecorder, with Strict-Transport-Security set beforehand or not
NewRecorder(hsts) ==
    [header |-> IF hsts = "" THEN EmptyMap ELSE ("Strict-Transport-Security" :> <<hsts>>),
     status |-> 0, body |-> <<>>, read |-> <<>>]

\* Header.Get that finds no name
HeaderGetNothing(w, key) == ""

\* http.Header.Get: the first value of the name, or ""
HeaderGet(w, key) == IF key \in DOMAIN w.header THEN w.header[key][1] ELSE ""

\* http.Header.Set: the name holds this value only; after the status is written
\* the header map sent no longer changes
HeaderSet(w, key, value) ==
    IF w.status = 0 THEN [w EXCEPT !.header = With(@, key, <<value>>)] ELSE w

\* http.ResponseWriter.WriteHeader: the first status written is the one sent
WriteHeader(w, code) == IF w.status = 0 THEN [w EXCEPT !.status = code] ELSE w

\* http.ResponseWriter.Write: writes status 200 first when none was written
ResponseWrite(w, bytes) == [WriteHeader(w, 200) EXCEPT !.body = Append(@, bytes)]

responseInvalidUID == "{\"code\":400,\"message\":\"invalid UID\"}"

\* A middleware is what it does to the response writer before it calls the
\* handler it wraps, and whether it calls it.
\* SetHSTS
SetHSTS(w, r) ==
    [w |-> IF HeaderGet(w, "Strict-Transport-Security") = ""
           THEN HeaderSet(w, "Strict-Transport-Security",
                          "max-age=31536000; includeSubDomains")
           ELSE w,
     next |-> TRUE]

\* AllowMethods that lets every method through
AllowMethodsAny(allowedMethods, w, r) == [w |-> w, next |-> TRUE]

\* AllowMethods
AllowMethods(allowedMethods, w, r) ==
    IF r.method \notin allowedMethods
    THEN [w |-> ResponseWrite(WriteHeader(HeaderSet(w, "Content-Type", "application/json"),
                                          405),
                              "{\"code\":405,\"message\":\"method not allowed\"}"),
          next |-> FALSE]
    ELSE [w |-> w, next |-> TRUE]

\* NotFound that writes the status only
NotFoundNoBody(w, r) == WriteHeader(w, 404)

\* NotFound
NotFound(w, r) ==
    ResponseWrite(WriteHeader(HeaderSet(w, "Content-Type", "application/json"), 404),
                  "{\"code\":404,\"message\":\"not found\"}")

\* StoreRequest that sets Cache-Control before it looks at what was read
StoreResponseCachesMisses(read, getContent, w, r) ==
    IF ~read.ok
    THEN NotFound(HeaderSet(w, "Cache-Control", "public, max-age=3600"), r)
    ELSE ResponseWrite(HeaderSet(HeaderSet(w, "Cache-Control", "public, max-age=3600"),
                                 "Content-Type", "application/json"),
                       read.data[getContent])

\* what StoreRequest answers once the store was read; getContent picks the field
StoreResponse(read, getContent, w, r) ==
    IF ~read.ok
    THEN NotFound(w, r)
    ELSE ResponseWrite(HeaderSet(HeaderSet(w, "Cache-Control", "public, max-age=3600"),
                                 "Content-Type", "application/json"),
                       read.data[getContent])

\* StoreRequest over the OIDC store
StoreRequest(store, getContent, w, r) ==
    IF uuidParse(r.shootUID).err
    THEN ResponseWrite(WriteHeader(HeaderSet(w, "Content-Type", "application/json"), 400),
                       responseInvalidUID)
    ELSE LET key == r.projectName \o <<"-", "-">> \o r.shootUID
         IN  StoreResponse(Read(store, key), getContent,
                           [w EXCEPT !.read = Append(@, key)], r)

\* StoreRequest over the CA store
CAStoreRequest(store, w, r) ==
    IF uuidParse(r.shootUID).err
    THEN ResponseWrite(WriteHeader(HeaderSet(w, "Content-Type", "application/json"), 400),
                       responseInvalidUID)
    ELSE LET key == r.projectName \o <<"-", "-">> \o r.shootUID
         IN  StoreResponse(CARead(store, key), "CABundle",
                           [w EXCEPT !.read = Append(@, key)], r)

\* Handler.HandleOpenIDConfiguration
HandleOpenIDConfiguration(store, w, r) ==
    LET hsts == SetHSTS(w, r)
        allow == AllowMethods({"GET", "HEAD"}, hsts.w, r)
    IN  IF allow.next THEN StoreRequest(store, "Config", allow.w, r) ELSE allow.w

\* HandleJWKS that serves the other field
HandleJWKSServesConfig(store, w, r) == HandleOpenIDConfiguration(store, w, r)

\* Handler.HandleJWKS
HandleJWKS(store, w, r) ==
    LET hsts == SetHSTS(w, r)
        allow == AllowMethods({"GET", "HEAD"}, hsts.w, r)
    IN  IF allow.next THEN StoreRequest(store, "JWKS", allow.w, r) ELSE allow.w

\* Handler.HandleCABundle
HandleCABundle(store, w, r) ==
    LET hsts == SetHSTS(w, r)
        allow == AllowMethods({"GET", "HEAD"}, hsts.w, r)
    IN  IF allow.next THEN CAStoreRequest(store, allow.w, r) ELSE allow.w

\* a request: its method, the pattern of the mux its path matches ("/" when it
\* matches no other), and the path values of the pattern
Request(method, pattern, projName, uid) ==
    [method |-> method, pattern |-> pattern, projectName |-> projName, shootUID |-> uid]

\* the requests the server is sent
Requests ==
    {Request(method, pattern, projName, uid) :
        method \in {"GET", "HEAD", "POST"},
        pattern \in {"openid-configuration", "jwks", "cluster-ca", "/"},
        projName \in {projectName, <<"xyz">>},
        uid \in {shootUID, otherUID, <<"not", "-", "a", "-", "uuid">>}}

\* http.ServeMux.ServeHTTP with the three routes and NotFound under "/"
ServeMux(w, r) ==
    CASE r.pattern = "openid-configuration" -> HandleOpenIDConfiguration(oidStore, w, r)
      [] r.pattern = "jwks" -> HandleJWKS(oidStore, w, r)
      [] r.pattern = "cluster-ca" -> HandleCABundle(caStore, w, r)
      [] OTHER -> NotFound(w, r)

\* a server that drops the entry it has served
ServeHTTPEvicting(r, hsts) ==
    /\ Cardinality(served) < MaxRequests
    /\ served' = served \cup {[request |-> r, recorder |-> NewRecorder(hsts),
                                result |-> ServeMux(NewRecorder(hsts), r)]}
    /\ oidStore' = Delete(oidStore, r.projectName \o <<"-", "-">> \o r.shootUID)
    /\ UNCHANGED <<controlPlane, oidProv, oidQueue, oidRun, caVars, storeVars, processVars>>

\* the server serves a request
ServeHTTP(r, hsts) ==
    /\ Cardinality(served) < MaxRequests
    /\ served' = served \cup {[request |-> r, recorder |-> NewRecorder(hsts),
                                result |-> ServeMux(NewRecorder(hsts), r)]}
    /\ UNCHANGED <<controlPlane, oidVars, caVars, storeVars, processVars>>

(***************************************************************************)
(* The two reconcilers and their control plane.                            *)
(***************************************************************************)
(***************************************************************************)
(* The workload identity handler (internal/handler/workloadidentity).  A   *)
(* URL is the sequence of its pieces: the scheme with "://", the host and  *)
(* path, then "?" and the query, then "#" and the fragment, when it has    *)
(* them.                                                                   *)
(***************************************************************************)
Schemes == ("https://" :> "https") @@ ("http://" :> "http") @@ ("ftp://" :> "ftp")

\* what follows the separator in a URL, "" when it is not there or nothing follows
After(rawURL, separator) ==
    IF \E i \in 1..(Len(rawURL) - 1) : rawURL[i] = separator /\ rawURL[i + 1] \notin {"?", "#"}
    THEN rawURL[(CHOOSE i \in 1..(Len(rawURL) - 1) : rawURL[i] = separator) + 1]
    ELSE ""

\* url.Parse that accepts control characters
urlParseLenient(rawURL) ==
    [err |-> FALSE,
     Scheme |-> IF rawURL # <<>> /\ rawURL[1] \in DOMAIN Schemes THEN Schemes[rawURL[1]] ELSE "",
     RawQuery |-> After(rawURL, "?"),
     Fragment |-> After(rawURL, "#")]

\* url.Parse: fails on a control character
urlParse(rawURL) ==
    IF \E i \in 1..Len(rawURL) : rawURL[i] = "\n"
    THEN [err |-> TRUE, Scheme |-> "", RawQuery |-> "", Fragment |-> ""]
    ELSE [err |-> FALSE,
          Scheme |-> IF rawURL # <<>> /\ rawURL[1] \in DOMAIN Schemes
                     THEN Schemes[rawURL[1]]
                     ELSE "",
          RawQuery |-> After(rawURL, "?"),
          Fragment |-> After(rawURL, "#")]

\* what New returns when it fails
NoHandler(err) == [Handler |-> <<>>, err |-> err]

\* New that does not look at the fragment of the issuer
WorkloadIdentityNewAnyFragment(openIDConfig, jwks) ==
    LET conf == UnmarshalConfig(openIDConfig)
        issuerURL == urlParse(conf.Issuer)
        jwksURL == urlParse(conf.JWKSURI)
        keySet == loadKeySet(jwks)
    IN  CASE conf.err -> NoHandler("failed to load openid configuration")
          [] issuerURL.err -> NoHandler("failed to parse issuer url")
          [] issuerURL.Scheme # "https" -> NoHandler("invalid issuer url scheme")
          [] issuerURL.RawQuery # "" -> NoHandler("issuer url must not contain query")
          [] jwksURL.err -> NoHandler("failed to parse jwks url")
          [] jwksURL.Scheme # "https" -> NoHandler("invalid jwks url scheme")
          [] keySet.err -> NoHandler("failed to load json web key set")
          [] \E i \in 1..Len(keySet.Keys) : ~keySet.Keys[i].IsPublic ->
               NoHandler("jwks key is not public")
          [] OTHER -> [Handler |-> <<[oidc |-> openIDConfig, jwks |-> jwks]>>, err |-> "nil"]

\* workloadidentity.New
WorkloadIdentityNew(openIDConfig, jwks) ==
    LET conf == UnmarshalConfig(openIDConfig)
        issuerURL == urlParse(conf.Issuer)
        jwksURL == urlParse(conf.JWKSURI)
        keySet == loadKeySet(jwks)
    IN  CASE conf.err -> NoHandler("failed to load openid configuration")
          [] issuerURL.err -> NoHandler("failed to parse issuer url")
          [] issuerURL.Scheme # "https" -> NoHandler("invalid issuer url scheme")
          [] issuerURL.RawQuery # "" -> NoHandler("issuer url must not contain query")
          [] issuerURL.Fragment # "" -> NoHandler("issuer url must not contain fragment")
          [] jwksURL.err -> NoHandler("failed to parse jwks url")
          [] jwksURL.Scheme # "https" -> NoHandler("invalid jwks url scheme")
          [] keySet.err -> NoHandler("failed to load json web key set")
          [] \E i \in 1..Len(keySet.Keys) : ~keySet.Keys[i].IsPublic ->
               NoHandler("jwks key is not public")
          [] OTHER -> [Handler |-> <<[oidc |-> openIDConfig, jwks |-> jwks]>>, err |-> "nil"]

\* handleInvalidRequest
handleInvalidRequest(w, r) ==
    IF r.method = "GET" \/ r.method = "HEAD"
    THEN [w |-> w, isValid |-> TRUE]
    ELSE [w |-> ResponseWrite(WriteHeader(HeaderSet(w, "Content-Type", "application/json"),
                                          405),
                              "{\"code\":405,\"message\":\"method not allowed\"}"),
          isValid |-> FALSE]

\* handleRequest that serves nothing
handleRequestEmpty(responseData, w, r) == WriteHeader(w, 200)

\* handleRequest
handleRequest(responseData, w, r) ==
    LET hsts == IF HeaderGet(w, "Strict-Transport-Security") = ""
                THEN HeaderSet(w, "Strict-Transport-Security", "max-age=31536000")
                ELSE w
        checked == handleInvalidRequest(hsts, r)
    IN  IF ~checked.isValid
        THEN checked.w
        ELSE ResponseWrite(HeaderSet(HeaderSet(checked.w, "Cache-Control",
                                               "public, max-age=3600"),
                                     "Content-Type", "application/json"),
                           responseData)

\* Handler.HandleWellKnown and HandleJWKS of the workload identity handler
HandleWellKnown(h, w, r) == handleRequest(h.oidc, w, r)
HandleGardenJWKS(h, w, r) == handleRequest(h.jwks, w, r)

\* the documents the process may be started with
OpenIDConfigs ==
    {CfgHttps, CfgHttpsOther, CfgHttpIssuer, CfgHttpJwksUri, CfgNoFields, CfgNotJSON,
     CfgIssuerQuery, CfgIssuerEmptyQuery, CfgIssuerFragment, CfgIssuerControl, CfgIssuerFtp,
     CfgJwksUriQuery, CfgJwksUriControl, CfgJwksUriFtp}
KeySets == {JwksPublic, JwksWithPrivate, JwksWithInvalid, JwksUnparsableKey, JwksNoKeys,
            JwksNotJSON}

notLoaded == [called |-> FALSE, openIDConfig |-> "", jwks |-> "", Handler |-> <<>>, err |-> "nil"]

\* run builds the workload identity handler from the two documents it was
\* configured with; when New fails run returns the error and no route is served
NewGardenHandler(openIDConfig, jwks) ==
    /\ ~gardenHandler.called
    /\ gardenHandler' = [called |-> TRUE, openIDConfig |-> openIDConfig, jwks |-> jwks]
                        @@ WorkloadIdentityNew(openIDConfig, jwks)
    /\ UNCHANGED <<controlPlane, oidVars, caVars, served, storeVars, reconciled,
                   certVars, ctx, runVars>>

\* the requests to the two routes of the workload identity handler
GardenRequests ==
    {Request(method, pattern, <<>>, <<>>) :
        method \in {"GET", "HEAD", "POST", "PUT"},
        pattern \in {"garden/openid-configuration", "garden/jwks"}}

\* the mux with the two routes of the workload identity handler
GardenMux(h, w, r) ==
    IF r.pattern = "garden/openid-configuration"
    THEN HandleWellKnown(h, w, r)
    ELSE HandleGardenJWKS(h, w, r)

\* the server serves a request to a workload identity route
ServeGarden(r, hsts) ==
    /\ gardenHandler.called
    /\ gardenHandler.err = "nil"
    /\ Cardinality(served) < MaxGardenRequests
    /\ served' = served \cup {[request |-> r, recorder |-> NewRecorder(hsts),
                                result |-> GardenMux(gardenHandler.Handler[1],
                                                     NewRecorder(hsts), r)]}
    /\ UNCHANGED <<controlPlane, oidVars, caVars, storeVars, processVars>>

(***************************************************************************)
(* The dynamic certificate (internal/dynamiccert/certificate.go).  The     *)
(* content of certFile is the chain of certificates in it, that of keyFile *)
(* the key; "half" is a file observed while it is written, an empty file  *)
(* one that cannot be read.  A certificate and a key make a pair when they *)
(* carry the same number.                                                  *)
(***************************************************************************)
CertContents == {<<"leaf1">>, <<"leaf2">>, <<"leaf1", "intermediate">>, <<"half">>, <<>>}
KeyContents == {"key1", "key2", "half", ""}
KeyOf(chain) == IF chain[1] = "leaf1" THEN "key1" ELSE "key2"

initialFiles == [cert |-> <<"leaf1">>, key |-> "key1", writes |-> 0]

\* X509KeyPair that does not compare the key with the certificate
LoadX509KeyPairAnyKey(certPEM, keyPEM) ==
    IF certPEM \in {<<"half">>, <<>>} \/ keyPEM \in {"half", ""}
    THEN [err |-> TRUE, cert |-> [Certificate |-> <<>>, PrivateKey |-> ""]]
    ELSE [err |-> FALSE, cert |-> [Certificate |-> certPEM, PrivateKey |-> keyPEM]]

\* tls.LoadX509KeyPair on what was read from the two files: the zero Certificate
\* and an error unless both parse and the key is that of the leaf
LoadX509KeyPair(certPEM, keyPEM) ==
    IF certPEM \in {<<"half">>, <<>>} \/ keyPEM \in {"half", ""} \/ keyPEM # KeyOf(certPEM)
    THEN [err |-> TRUE, cert |-> [Certificate |-> <<>>, PrivateKey |-> ""]]
    ELSE [err |-> FALSE, cert |-> [Certificate |-> certPEM, PrivateKey |-> keyPEM]]

\* areEqual that finds every two chains equal
areEqualAlways(cert1, cert2) == TRUE

\* areEqual that compares the lengths of the chains only
areEqualLength(cert1, cert2) == Len(cert1) = Len(cert2)

\* areEqual
areEqual(cert1, cert2) ==
    /\ Len(cert1) = Len(cert2)
    /\ \A i \in 1..Len(cert1) : cert1[i] = cert2[i]

\* the addresses a tls.Certificate may be allocated at: a fresh one is not the
\* address of the current one, which is still referenced
Addresses == {1, 2}
FreshAddress(current) == CHOOSE a \in Addresses : a # current

\* certificate is what dc.certificate points to and ptr the address it holds, 0
\* for nil; lock is dc.lock held by the writer and readers the number of
\* goroutines that hold it for reading
noDynCert ==
    [called |-> FALSE, certificate |-> <<>>, ptr |-> 0, err |-> "nil", lock |-> FALSE,
     readers |-> 0]
idleRefresher == [pc |-> "none", cert |-> <<>>, key |-> "", err |-> "nil", since |-> 0]

\* New that leaves the certificate to the first refresh
DynamicCertNewLazy(certPEM, keyPEM) ==
    LET loaded == LoadX509KeyPair(certPEM, keyPEM)
    IN  IF loaded.err
        THEN [called |-> TRUE, certificate |-> <<>>, ptr |-> 0,
              err |-> "tls: failed to load", lock |-> FALSE, readers |-> 0]
        ELSE [called |-> TRUE, certificate |-> <<>>, ptr |-> 0, err |-> "nil", lock |-> FALSE,
              readers |-> 0]

\* dynamiccert.New, given what the two files hold: the DynamicCertificate or the
\* error of the load
DynamicCertNew(certPEM, keyPEM) ==
    LET loaded == LoadX509KeyPair(certPEM, keyPEM)
    IN  IF loaded.err
        THEN [called |-> TRUE, certificate |-> <<>>, ptr |-> 0,
              err |-> "tls: failed to load", lock |-> FALSE, readers |-> 0]
        ELSE [called |-> TRUE, certificate |-> <<loaded.cert>>, ptr |-> FreshAddress(0),
              err |-> "nil", lock |-> FALSE, readers |-> 0]

\* run constructs the dynamic certificate; New starts the goroutine of the ticker
\* when the load succeeded
NewDynamicCert ==
    /\ ~dynCert.called
    /\ dynCert' = DynamicCertNew(files.cert, files.key)
    /\ refresher' = IF dynCert'.err = "nil"
                    THEN [idleRefresher EXCEPT !.pc = "wait"]
                    ELSE refresher
    /\ UNCHANGED <<controlPlane, oidVars, caVars, served, storeVars, reconciled,
                   gardenHandler,
                   files, handshakes, ctx, runVars>>

\* certFile or keyFile is rewritten, or is observed half-written or unreadable
RewriteFile(file, content) ==
    /\ files.writes < MaxRewrites
    /\ files[file] # content
    /\ files' = [files EXCEPT ![file] = content, !.writes = @ + 1]
    /\ refresher' = [refresher EXCEPT !.since = 0]
    /\ UNCHANGED <<controlPlane, oidVars, caVars, served, storeVars, reconciled,
                   gardenHandler,
                   dynCert, handshakes, ctx, runVars>>

\* the goroutine New starts: for range ticker.C { reloadCert() }.  since counts,
\* as history, the ticks received after the files last changed.
Refresh ==
    /\ \/ /\ refresher.pc = "wait"
          /\ refresher' = [refresher EXCEPT !.pc = "readCert", !.err = "nil",
                                            !.since = IF @ < TicksCounted THEN @ + 1 ELSE @]
          /\ UNCHANGED dynCert
       \/ /\ refresher.pc = "readCert"
          /\ refresher' = [refresher EXCEPT !.pc = "readKey", !.cert = files.cert]
          /\ UNCHANGED dynCert
       \/ /\ refresher.pc = "readKey"
          /\ LET loaded == LoadX509KeyPair(refresher.cert, files.key)
             IN  refresher' = [refresher EXCEPT
                                  !.key = files.key,
                                  !.pc = IF loaded.err THEN "wait" ELSE "lock",
                                  !.err = IF loaded.err
                                          THEN "Failed to reload certificates"
                                          ELSE "nil"]
          /\ UNCHANGED dynCert
       \/ /\ refresher.pc = "lock"
          /\ ~dynCert.lock
          /\ dynCert.readers = 0
          /\ dynCert' = [dynCert EXCEPT !.lock = TRUE]
          /\ refresher' = [refresher EXCEPT !.pc = "renew"]
       \/ /\ refresher.pc = "renew"
          /\ LET cert == LoadX509KeyPair(refresher.cert, refresher.key).cert
             IN  dynCert' = [dynCert EXCEPT
                                !.certificate =
                                    IF areEqual(cert.Certificate, @[1].Certificate)
                                    THEN @
                                    ELSE <<cert>>,
                                !.ptr =
                                    IF areEqual(cert.Certificate,
                                                dynCert.certificate[1].Certificate)
                                    THEN @
                                    ELSE FreshAddress(@),
                                !.lock = FALSE]
          /\ refresher' = [refresher EXCEPT !.pc = "wait"]
    /\ UNCHANGED <<controlPlane, oidVars, caVars, served, storeVars, reconciled,
                   gardenHandler,
                   files, handshakes, ctx, runVars>>

\* defer dc.lock.RUnlock() that does not run
RUnlockForgotten(dc) == dc

\* dc.lock.RUnlock()
RUnlock(dc) == [dc EXCEPT !.readers = @ - 1]

\* DynamicCertificate.GetCertificate, called by a TLS handshake: RLock, which
\* waits while the writer holds the lock or waits for it, then the return of
\* dc.certificate with the deferred RUnlock
GetCertificate ==
    /\ dynCert.called
    /\ dynCert.err = "nil"
    /\ \/ /\ ~dynCert.lock
          /\ refresher.pc # "lock"
          /\ dynCert.readers < MaxHandshakes
          /\ dynCert' = [dynCert EXCEPT !.readers = @ + 1]
          /\ UNCHANGED handshakes
       \/ /\ dynCert.readers > 0
          /\ handshakes' = handshakes
                               \cup {[certificate |-> dynCert.certificate, err |-> "nil"]}
          /\ dynCert' = RUnlock(dynCert)
    /\ UNCHANGED <<controlPlane, oidVars, caVars, served, storeVars, reconciled,
                   gardenHandler,
                   files, refresher, ctx, runVars>>

\* the context of the process is cancelled
Cancel ==
    /\ ~ctx.process
    /\ ctx' = [process |-> TRUE, mgr |-> TRUE, srv |-> TRUE]
    /\ UNCHANGED <<controlPlane, oidVars, caVars, served, storeVars, reconciled,
                   gardenHandler,
                   certVars, runVars>>

(***************************************************************************)
(* run (cmd/discovery-server/app): the manager and the server as two       *)
(* goroutines, each sending what its task returned on an unbuffered        *)
(* channel and cancelling the context of the other when it is done.  An    *)
(* error is "nil" or its message; errors.Join is the sequence of the       *)
(* errors that are not nil, empty when all are.                            *)
(***************************************************************************)
Tasks == {"mgr", "srv"}
TaskErrors == [mgr |-> {"nil", "manager failed"},
               srv |-> {"nil", "failed serving content",
                        "discovery server failed graceful shutdown"}]

\* errors.Join
Join(errs) == SelectSeq(errs, LAMBDA err : err # "nil")

\* the context a goroutine cancels when it is done: cancelSrv in that of the
\* manager, cancelMgr in that of the server
Cancels(task) == IF task = "mgr" THEN "srv" ELSE "mgr"

\* a second receive from the channel the first value came from
AwaitsSame(first) == first

\* the channel run receives from after the select: the one the select did not take
Awaits(first) == IF first = "mgr" THEN "srv" ELSE "mgr"

idleTask == [pc |-> "none", err |-> "nil"]
idleMain == [pc |-> "none", first |-> "none", errs |-> <<>>, result |-> <<>>]

\* runServer has not been called
idleServer == [pc |-> "none", listener |-> "none", shutdown |-> FALSE, result |-> "nil"]

\* run makes the channels and the contexts and starts the two goroutines
Run ==
    /\ main.pc = "none"
    /\ main' = [main EXCEPT !.pc = "select"]
    /\ tasks' = [t \in Tasks |-> [idleTask EXCEPT !.pc = "running"]]
    /\ UNCHANGED <<controlPlane, oidVars, caVars, served, storeVars, reconciled,
                   gardenHandler,
                   certVars, ctx, server>>

\* mgr.Start or runServer returns, with an error or nil
TaskReturns(task, err) ==
    /\ tasks[task].pc = "running"
    /\ tasks' = [tasks EXCEPT ![task] = [pc |-> "send", err |-> err]]
    /\ UNCHANGED <<controlPlane, oidVars, caVars, served, storeVars, reconciled,
                   gardenHandler,
                   certVars, ctx, main, server>>

\* a task whose context is cancelled returns
TaskStops(task) ==
    /\ ctx[task]
    /\ \E err \in TaskErrors[task] : TaskReturns(task, err)

\* mgrCh <- ... or srvCh <- ...: the send completes when run receives from the
\* channel, in its select or in the receive after it
Send(task) ==
    /\ tasks[task].pc = "send"
    /\ \/ /\ main.pc = "select"
          /\ main' = [main EXCEPT !.pc = "receive", !.first = task,
                                  !.errs = <<tasks[task].err>>]
       \/ /\ main.pc = "receive"
          /\ Awaits(main.first) = task
          /\ main' = [main EXCEPT !.pc = "returned",
                                  !.errs = Append(@, tasks[task].err),
                                  !.result = Join(Append(main.errs, tasks[task].err))]
    /\ tasks' = [tasks EXCEPT ![task].pc = "deferred"]
    /\ UNCHANGED <<controlPlane, oidVars, caVars, served, storeVars, reconciled,
                   gardenHandler,
                   certVars, ctx, server>>

\* defer cancelSrv() or defer cancelMgr(), when the goroutine returns
Deferred(task) ==
    /\ tasks[task].pc = "deferred"
    /\ tasks' = [tasks EXCEPT ![task].pc = "done"]
    /\ ctx' = [ctx EXCEPT ![Cancels(task)] = TRUE]
    /\ UNCHANGED <<controlPlane, oidVars, caVars, served, storeVars, reconciled,
                   gardenHandler,
                   certVars, main, server>>

(***************************************************************************)
(* runServer (cmd/discovery-server/app): it makes the unbuffered channel   *)
(* errCh, starts the goroutine that calls srv.ListenAndServeTLS, and       *)
(* selects on errCh and on the context of the server.  server.pc is the    *)
(* position of runServer, server.listener that of the goroutine.           *)
(***************************************************************************)
\* the goroutine of run calls runServer: errCh is made, the goroutine started
RunServer ==
    /\ tasks["srv"].pc = "running"
    /\ server.pc = "none"
    /\ server' = [server EXCEPT !.pc = "select", !.listener = "listening"]
    /\ UNCHANGED <<controlPlane, oidVars, caVars, served, storeVars, reconciled,
                   gardenHandler,
                   certVars, ctx, tasks, main>>

\* what the goroutine has left to do with this position: with "send" it is at
\* errCh <- fmt.Errorf("failed serving content: %w", err), with "exit" it returns
ListenerAt(position) ==
    /\ server' = [server EXCEPT !.listener = position]
    /\ UNCHANGED <<controlPlane, oidVars, caVars, served, storeVars, reconciled,
                   gardenHandler,
                   certVars, ctx, tasks, main>>

\* srv.ListenAndServeTLS returns an error other than http.ErrServerClosed: the
\* address is taken, the listener breaks
ListenFails ==
    /\ server.listener = "listening"
    /\ ~server.shutdown
    /\ ListenerAt("send")

\* srv.ListenAndServeTLS returns http.ErrServerClosed, as it does once Shutdown
\* was called
ListenStops ==
    /\ server.listener = "listening"
    /\ server.shutdown
    /\ ListenerAt("exit")

\* case err := <-errCh of the select: the send of the goroutine completes and
\* runServer returns the error; from the closed channel it receives nil
ReceiveErrCh ==
    /\ server.pc = "select"
    /\ server.listener \in {"send", "done"}
    /\ server' = IF server.listener = "send"
                 THEN [server EXCEPT !.pc = "returned", !.listener = "exit",
                                     !.result = "failed serving content"]
                 ELSE [server EXCEPT !.pc = "returned", !.result = "nil"]
    /\ UNCHANGED <<controlPlane, oidVars, caVars, served, storeVars, reconciled,
                   gardenHandler,
                   certVars, ctx, tasks, main>>

\* case <-ctx.Done() of the select
SelectDone ==
    /\ server.pc = "select"
    /\ ctx.srv
    /\ server' = [server EXCEPT !.pc = "shutdown"]
    /\ UNCHANGED <<controlPlane, oidVars, caVars, served, storeVars, reconciled,
                   gardenHandler,
                   certVars, ctx, tasks, main>>

\* srv.Shutdown(cancelCtx) and the return after it
Shutdown(err) ==
    /\ server.pc = "shutdown"
    /\ server' = [server EXCEPT !.pc = "returned", !.shutdown = TRUE, !.result = err]
    /\ UNCHANGED <<controlPlane, oidVars, caVars, served, storeVars, reconciled,
                   gardenHandler,
                   certVars, ctx, tasks, main>>

\* defer close(errCh), when the goroutine returns
ListenerExits ==
    /\ server.listener = "exit"
    /\ ListenerAt("done")

\* runServer has returned: the goroutine of run has its value to send
RunServerReturns ==
    /\ server.pc = "returned"
    /\ TaskReturns("srv", server.result)

\* run with runServer step by step; the manager returns what it returns
ListenNext ==
    \/ Run
    \/ \E err \in TaskErrors["mgr"] : TaskReturns("mgr", err)
    \/ RunServer
    \/ ListenFails
    \/ ListenStops
    \/ ReceiveErrCh
    \/ SelectDone
    \/ \E err \in {"nil", "discovery server failed graceful shutdown"} : Shutdown(err)
    \/ ListenerExits
    \/ RunServerReturns
    \/ \E task \in Tasks : Send(task)
    \/ \E task \in Tasks : Deferred(task)
    \/ Cancel

\* no Reconcile has been observed for the key, and none is about to be
notObserved == [armed |-> -1, last |-> <<>>]

notReconciled ==
    [oid |-> [name \in SecretNames |-> notObserved],
     ca |-> [req \in ConfigMapRequests |-> notObserved]]

vars == <<secrets, configmaps, namespaces, projects, shoots, apiErr, changes,
          oidStore, oidProv, oidQueue, oidRun,
          caStore, caProv, storeMapping, caQueue, caRun, served,
          heap, entries, mutex, goroutines, log, constructed,
          gardenHandler, files, dynCert, refresher, handshakes, ctx, tasks, main, server,
          reconciled>>

\* the process starts with empty stores against a control plane that is either
\* empty or holds the good objects of one shoot; the initial list of each watch
\* queues every object that passes the predicate
Init ==
    /\ \/ /\ secrets = EmptyMap
          /\ configmaps = EmptyMap
          /\ namespaces = EmptyMap
          /\ projects = EmptyMap
          /\ shoots = EmptyMap
       \/ /\ \E name \in SecretNames : secrets = (name :> goodSecret)
          /\ configmaps = (NamespacedName(shootNamespace, configmapName) :> goodConfigMap)
          /\ namespaces = (shootNamespace
                             :> Namespace(shootNamespace, ProjectNameLabel :> projectName))
          /\ projects = (projectName :> Project(projectName, {shootNamespace}))
          /\ shoots = (ShootKey(shootName, shootNamespace)
                          :> Shoot(shootName, shootNamespace, shootUID, managedAnnotations))
    /\ apiErr = "none"
    /\ changes = 0
    /\ oidStore = EmptyMap
    /\ oidProv = EmptyMap
    /\ oidQueue = {name \in DOMAIN secrets : isRelevantSecret(secrets[name])}
    /\ oidRun = [name \in SecretNames |-> idleRun]
    /\ caStore = EmptyMap
    /\ caProv = EmptyMap
    /\ storeMapping = EmptyMap
    /\ caQueue = {req \in DOMAIN configmaps : isRelevantConfigMap(configmaps[req])}
    /\ caRun = [req \in ConfigMapRequests |-> idleCARun]
    /\ served = {}
    /\ heap = EmptyMap
    /\ entries = EmptyMap
    /\ mutex = [writer |-> 0, readers |-> {}]
    /\ goroutines = [g \in Goroutines |-> idleCall]
    /\ log = <<>>
    /\ constructed = notConstructed
    /\ gardenHandler = notLoaded
    /\ files = initialFiles
    /\ dynCert = noDynCert
    /\ refresher = idleRefresher
    /\ handshakes = {}
    /\ ctx = [process |-> FALSE, mgr |-> FALSE, srv |-> FALSE]
    /\ tasks = [t \in Tasks |-> idleTask]
    /\ main = idleMain
    /\ server = idleServer
    /\ reconciled = notReconciled

\* the control plane changes a secret
SecretEnvironment ==
    \/ \E name \in SecretNames : \E obj \in SecretsNamed(name) : CreateSecret(name, obj)
    \/ \E name \in SecretNames : \E obj \in SecretsNamed(name) : UpdateSecret(name, obj)
    \/ \E name \in SecretNames : DeleteSecret(name)

\* the control plane changes an object both reconcilers read, or its health
SharedEnvironment ==
    \/ \E obj \in ProjectVariants : ApplyProject(obj)
    \/ \E name \in DOMAIN projects : DeleteProject(name)
    \/ \E obj \in ShootVariants : ApplyShoot(obj)
    \/ \E key \in DOMAIN shoots : DeleteShoot(key)
    \/ \E kind \in ResourceKinds \cup {"none"} : SetAPIErr(kind)

\* the control plane changes a configmap or a namespace
ConfigMapEnvironment ==
    \/ \E req \in ConfigMapRequests : \E obj \in ConfigMapVariants : CreateConfigMap(req, obj)
    \/ \E req \in ConfigMapRequests : \E obj \in ConfigMapVariants : UpdateConfigMap(req, obj)
    \/ \E req \in ConfigMapRequests : DeleteConfigMap(req)
    \/ \E obj \in NamespaceVariants : ApplyNamespace(obj)
    \/ \E name \in DOMAIN namespaces : DeleteNamespace(name)

\* what the OIDC controller and the worker it gives the request do for one name
OIDCWorker(name) ==
    \/ Start(name)
    \/ ReconcileSecret(name)
    \/ ReconcileProject(name)
    \/ ReconcileShoot(name)
    \/ Done(name)

OIDCController == \E name \in SecretNames : OIDCWorker(name)

\* what the CA controller and the worker it gives the request do for one configmap
CAWorker(req) ==
    \/ CAStart(req)
    \/ CAReconcileConfigMap(req)
    \/ CAReconcileNamespace(req)
    \/ CAReconcileProject(req)
    \/ CAReconcileShoot(req)
    \/ CADone(req)

CAController == \E req \in ConfigMapRequests : CAWorker(req)

Next ==
    \/ SecretEnvironment
    \/ SharedEnvironment
    \/ ConfigMapEnvironment
    \/ OIDCController
    \/ CAController

\* the whole process
Spec == Init /\ [][Next]_vars

\* The OIDC controller alone.  No action of the CA controller and no change of a
\* configmap or a namespace writes a variable an OIDC action reads or writes, so
\* what holds of oidStore, oidProv, oidQueue and oidRun here holds under Spec.
OIDCNext == SecretEnvironment \/ SharedEnvironment \/ OIDCController
OIDCSpec == Init /\ [][OIDCNext]_vars

\* The OIDC controller alone, with workers that do not stop.
FairOIDCSpec == OIDCSpec /\ \A name \in SecretNames : WF_vars(OIDCWorker(name))

\* The CA controller alone; the same argument, for caStore, caProv, storeMapping,
\* caQueue and caRun.
CANext == SharedEnvironment \/ ConfigMapEnvironment \/ CAController
CASpec == Init /\ [][CANext]_vars

\* The CA controller alone, with workers that do not stop: a request on the queue
\* is taken, a Reconcile in flight takes its next step, a result is handled.  The
\* control plane is free to stop changing.
FairCASpec == CASpec /\ \A req \in ConfigMapRequests : WF_vars(CAWorker(req))

\* The HTTP server next to the two controllers: the control plane deletes the
\* secret and the configmap, the controllers reconcile, the server is sent
\* requests.  Every behaviour is one of the whole process.
Server == \E r \in Requests : \E hsts \in {"", "max-age=1"} : ServeHTTP(r, hsts)
ServerNext ==
    \/ \E name \in SecretNames : DeleteSecret(name)
    \/ \E req \in ConfigMapRequests : DeleteConfigMap(req)
    \/ OIDCController
    \/ CAController
    \/ Server
ServerSpec == Init /\ [][ServerNext]_vars

\* A store of its own shared by goroutines that call it in any order.
StoreMethods(g) == StoreWrite(g) \/ StoreRead(g) \/ StoreDelete(g) \/ StoreLenCall(g)
Callers ==
    \/ \E g \in Goroutines : \E key \in StoreKeys : \E payload \in Payloads :
           CallWrite(g, key, payload)
    \/ \E g \in Goroutines : \E key \in StoreKeys : \E op \in {"Read", "Delete"} :
           Call(g, op, key)
    \/ \E g \in Goroutines : Call(g, "Len", "")
    \/ \E g \in Goroutines : CallerMutates(g)
GardenServer ==
    \/ \E openIDConfig \in OpenIDConfigs : \E jwks \in KeySets :
           NewGardenHandler(openIDConfig, jwks)
    \/ \E r \in GardenRequests : \E hsts \in {"", "max-age=60"} : ServeGarden(r, hsts)
GardenInit == Init /\ secrets = EmptyMap
GardenSpec == GardenInit /\ [][GardenServer]_vars

\* The dynamic certificate while the files change and handshakes ask for it.
CertNext ==
    \/ NewDynamicCert
    \/ \E content \in CertContents : RewriteFile("cert", content)
    \/ \E content \in KeyContents : RewriteFile("key", content)
    \/ Refresh
    \/ GetCertificate
    \/ Cancel
CertInit == Init /\ secrets = EmptyMap
CertSpec == CertInit /\ [][CertNext]_vars

\* a handshake that holds the lock for reading returns
ReturnsCertificate == GetCertificate /\ dynCert'.readers < dynCert.readers

\* The same, with a ticker that keeps ticking and goroutines that are scheduled:
\* the goroutine of the refresh takes its next step when it can, and a handshake
\* that holds the lock returns.
FairCertSpec == CertSpec /\ WF_vars(Refresh) /\ WF_vars(ReturnsCertificate)

\* run with its two tasks; the context of the process may be cancelled
RunNext ==
    \/ Run
    \/ \E task \in Tasks : \E err \in TaskErrors[task] : TaskReturns(task, err)
    \/ \E task \in Tasks : Send(task)
    \/ \E task \in Tasks : Deferred(task)
    \/ Cancel
RunInit == Init /\ secrets = EmptyMap
RunSpec == RunInit /\ [][RunNext]_vars

\* The same with goroutines that run, and tasks that return once their context
\* is cancelled.
FairRunSpec ==
    /\ RunSpec
    /\ WF_vars(Run)
    /\ \A task \in Tasks :
           WF_vars(TaskStops(task)) /\ WF_vars(Send(task)) /\ WF_vars(Deferred(task))

Constructors ==
    \E constructor \in {"NewStore", "MustNewStore"} : \E f \in CopyFuncs :
        Construct(constructor, f)
StoreNext == Constructors \/ Callers \/ \E g \in Goroutines : StoreMethods(g)
StoreInit == Init /\ secrets = EmptyMap
StoreSpec == StoreInit /\ [][StoreNext]_vars

\* The same, with goroutines that are scheduled: a call that can take its next
\* step takes it.  What the callers do is left to them.
FairStoreSpec == StoreSpec /\ \A g \in Goroutines : WF_vars(StoreMethods(g))

(***************************************************************************)
(* Properties.                                                             *)
(*                                                                         *)
(* What a property calls valid is stated here on the objects themselves,   *)
(* not through the check operators of the reconcilers.                     *)
(***************************************************************************)
noResult == [err |-> FALSE, RequeueAfter |-> 0]
resyncResult == [err |-> FALSE, RequeueAfter |-> ResyncPeriod]
caRequest == NamespacedName(shootNamespace, configmapName)
caKey == projectName \o <<"-", "-">> \o shootUID

\* a step of the Reconcile in flight for name
OIDCStepped(name) ==
    /\ oidRun[name].pc \notin {"idle", "returned"}
    /\ oidRun'[name] # oidRun[name]

\* a step of the Reconcile in flight for req
CAStepped(req) ==
    /\ caRun[req].pc \notin {"idle", "returned"}
    /\ caRun'[req] # caRun[req]

\* the secret fails a check that needs the secret and the request name only
SecretFails(secret, name) ==
    \/ secret.DeletionTimestamp
    \/ openidConfigKey \notin DOMAIN secret.Data
    \/ secret.Data[openidConfigKey] = ""
    \/ jwksKey \notin DOMAIN secret.Data
    \/ secret.Data[jwksKey] = ""
    \/ LabelPublicKeys \notin DOMAIN secret.Labels
    \/ secret.Labels[LabelPublicKeys] # <<"serviceaccount">>
    \/ ProjectNameLabel \notin DOMAIN secret.Labels
    \/ LabelShootName \notin DOMAIN secret.Labels
    \/ LabelShootNamespace \notin DOMAIN secret.Labels
    \/ SplitProjectNameAndShootUID(name).err
    \/ secret.Labels[ProjectNameLabel] # SplitProjectNameAndShootUID(name).projName

\* the documents of the secret fail a check
PayloadFails(secret) ==
    LET cfg == UnmarshalConfig(secret.Data[openidConfigKey])
        keySet == loadKeySet(secret.Data[jwksKey])
    IN  \/ cfg.err
        \/ cfg.Issuer = <<>> \/ Head(cfg.Issuer) # "https://"
        \/ cfg.JWKSURI = <<>> \/ Head(cfg.JWKSURI) # "https://"
        \/ keySet.err
        \/ \E i \in 1..Len(keySet.Keys) : ~keySet.Keys[i].IsPublic \/ ~keySet.Keys[i].Valid

\* the step the Reconcile of name is about to take reads without an error of the
\* API server, and what it reads is missing or fails a check
OIDCFailsNow(name) ==
    LET run == oidRun[name]
        labels == run.secret.Labels
        key == <<labels[LabelShootName], labels[LabelShootNamespace]>>
    IN  \/ /\ run.pc = "getSecret"
           /\ apiErr # "secrets"
           /\ name \notin DOMAIN secrets \/ SecretFails(secrets[name], name)
        \/ /\ run.pc = "getProject"
           /\ apiErr # "projects"
           /\ \/ labels[ProjectNameLabel] \notin DOMAIN projects
              \/ projects[labels[ProjectNameLabel]].Namespace # {labels[LabelShootNamespace]}
        \/ /\ run.pc = "getShoot"
           /\ apiErr # "shoots"
           /\ \/ key \notin DOMAIN shoots
              \/ name # labels[ProjectNameLabel] \o <<"-", "-">> \o shoots[key].UID
              \/ AnnotationAuthenticationIssuer \notin DOMAIN shoots[key].Annotations
              \/ shoots[key].Annotations[AnnotationAuthenticationIssuer] # <<"managed">>
              \/ PayloadFails(run.secret)

\* the step the Reconcile of name is about to take reads with an error of the API server
OIDCErrNow(name) ==
    \/ oidRun[name].pc = "getSecret" /\ apiErr = "secrets"
    \/ oidRun[name].pc = "getProject" /\ apiErr = "projects"
    \/ oidRun[name].pc = "getShoot" /\ apiErr = "shoots"

\* the PEM blocks of a text of ca.crt
RECURSIVE Blocks(_)
Blocks(text) ==
    IF text = <<>> THEN <<>>
    ELSE IF Head(text).pem THEN <<Head(text)>> \o Blocks(Tail(text))
    ELSE Blocks(Tail(text))

\* the block is a CA certificate as the CA store wants it
GoodBlock(block) ==
    /\ block.Type = "CERTIFICATE"
    /\ block.Headers = 0
    /\ block.Bytes \in {"ca certificate", "second ca certificate"}

\* the step the CA Reconcile of req is about to take reads without an error of the
\* API server, and what it reads is missing or fails a check
CAFailsNow(req) ==
    LET run == caRun[req]
        labels == run.configmap.Labels
        key == <<labels[LabelShootName], req.Namespace>>
    IN  \/ /\ run.pc = "getConfigMap"
           /\ apiErr # "configmaps"
           /\ \/ req \notin DOMAIN configmaps
              \/ configmaps[req].DeletionTimestamp
              \/ DataKeyCertificateCA \notin DOMAIN configmaps[req].Data
              \/ configmaps[req].Data[DataKeyCertificateCA] = <<>>
              \/ LabelDiscoveryPublic \notin DOMAIN configmaps[req].Labels
              \/ configmaps[req].Labels[LabelDiscoveryPublic] # <<"shoot-ca">>
              \/ LabelUpdateRestriction \notin DOMAIN configmaps[req].Labels
              \/ configmaps[req].Labels[LabelUpdateRestriction] # <<"true">>
        \/ /\ run.pc = "getNamespace"
           /\ apiErr # "namespaces"
           /\ \/ req.Namespace \notin DOMAIN namespaces
              \/ ProjectNameLabel \notin DOMAIN namespaces[req.Namespace].Labels
        \/ /\ run.pc = "getProject"
           /\ apiErr # "projects"
           /\ \/ run.projectName \notin DOMAIN projects
              \/ projects[run.projectName].Namespace # {req.Namespace}
              \/ LabelShootName \notin DOMAIN labels
              \/ LabelShootUID \notin DOMAIN labels
        \/ /\ run.pc = "getShoot"
           /\ apiErr # "shoots"
           /\ \/ key \notin DOMAIN shoots
              \/ shoots[key].UID # labels[LabelShootUID]
              \/ LET blocks == Blocks(run.configmap.Data[DataKeyCertificateCA])
                 IN  \E i \in 1..Len(blocks) : ~GoodBlock(blocks[i])

\* the step the CA Reconcile of req is about to take reads with an error of the API server
CAErrNow(req) ==
    \/ caRun[req].pc = "getConfigMap" /\ apiErr = "configmaps"
    \/ caRun[req].pc = "getNamespace" /\ apiErr = "namespaces"
    \/ caRun[req].pc = "getProject" /\ apiErr = "projects"
    \/ caRun[req].pc = "getShoot" /\ apiErr = "shoots"

\* C1: each entry of the OIDC store under key p--u was written by a Reconcile that
\* had read a secret labelled project = p, the Project p with a spec.namespace that
\* is not nil and equals the shoot-namespace label of the secret, and the Shoot
\* (shoot-name, shoot-namespace) with UID u and annotation authentication-issuer =
\* managed.
C1_OIDCEntryTenantBinding ==
    \A name \in DOMAIN oidStore :
        /\ name \in DOMAIN oidProv
        /\ LET prov == oidProv[name]
               labels == prov.secret.Labels
           IN  /\ {ProjectNameLabel, LabelShootName, LabelShootNamespace} \subseteq DOMAIN labels
               /\ prov.project.Name = labels[ProjectNameLabel]
               /\ prov.project.Namespace = {labels[LabelShootNamespace]}
               /\ prov.shoot.Name = labels[LabelShootName]
               /\ prov.shoot.Namespace = labels[LabelShootNamespace]
               /\ name = labels[ProjectNameLabel] \o <<"-", "-">> \o prov.shoot.UID
               /\ AnnotationAuthenticationIssuer \in DOMAIN prov.shoot.Annotations
               /\ prov.shoot.Annotations[AnnotationAuthenticationIssuer] = <<"managed">>

\* an entry is in the store although the project has since moved to another namespace
C1_Witness ==
    /\ secretName \in DOMAIN oidStore
    /\ projectName \in DOMAIN projects
    /\ projects[projectName].Namespace = {otherNamespace}

\* C2: each entry of the OIDC store was written by a Reconcile that had read a
\* secret whose openid-config parses with issuer and jwks_uri starting with
\* https://, whose jwks parses, and whose keys are all public and valid; the entry
\* holds the documents of that secret, so no Write happens after a failed check.
C2_OIDCEntryPayloadValid ==
    \A name \in DOMAIN oidStore :
        /\ name \in DOMAIN oidProv
        /\ LET secret == oidProv[name].secret
               cfg == UnmarshalConfig(secret.Data[openidConfigKey])
               keySet == loadKeySet(secret.Data[jwksKey])
           IN  /\ ~cfg.err
               /\ cfg.Issuer # <<>> /\ Head(cfg.Issuer) = "https://"
               /\ cfg.JWKSURI # <<>> /\ Head(cfg.JWKSURI) = "https://"
               /\ ~keySet.err
               /\ \A i \in 1..Len(keySet.Keys) :
                      keySet.Keys[i].IsPublic /\ keySet.Keys[i].Valid
               /\ oidStore[name].Config = secret.Data[openidConfigKey]
               /\ oidStore[name].JWKS = secret.Data[jwksKey]

\* an entry is in the store while the secret now holds a JWKS with a private key
C2_Witness ==
    /\ secretName \in DOMAIN oidStore
    /\ secretName \in DOMAIN secrets
    /\ jwksKey \in DOMAIN secrets[secretName].Data
    /\ secrets[secretName].Data[jwksKey] = JwksWithPrivate

\* C3: each entry of the CA store was written by a Reconcile that had read a
\* configmap in whose ca.crt every PEM block is of type CERTIFICATE, has no
\* headers, parses as a certificate and is a CA; a block that is not aborts the
\* Reconcile before the Write.
C3_CAEntryBlocksValid ==
    \A key \in DOMAIN caStore :
        /\ key \in DOMAIN caProv
        /\ LET blocks == Blocks(caProv[key].configmap.Data[DataKeyCertificateCA])
           IN  \A i \in 1..Len(blocks) :
                   /\ blocks[i].Type = "CERTIFICATE"
                   /\ blocks[i].Headers = 0
                   /\ ~ParseCertificate(blocks[i].Bytes).err
                   /\ ParseCertificate(blocks[i].Bytes).IsCA

\* an entry of two blocks is in the store
C3_Witness ==
    \E key \in DOMAIN caStore :
        Len(Blocks(caProv[key].configmap.Data[DataKeyCertificateCA])) = 2

\* C4: when the secret is not found, is being deleted or fails a check, or the
\* project or the shoot is missing or fails a check, and the read of the step had
\* no error of the API server, Reconcile returns with no entry under the name in
\* the store, a nil error and an empty result.
C4_OIDCFailureRemovesEntry ==
    [][\A name \in SecretNames :
           (OIDCStepped(name) /\ OIDCFailsNow(name)) =>
               /\ name \notin DOMAIN oidStore'
               /\ oidRun'[name].pc = "returned"
               /\ oidRun'[name].result = noResult]_vars

\* a Reconcile has returned an empty result and removed the entry the store held
C4_Witness ==
    /\ oidRun[secretName].pc = "returned"
    /\ oidRun[secretName].result = noResult
    /\ oidRun[secretName].held
    /\ secretName \notin DOMAIN oidStore

\* C5: when the configmap is not found, is being deleted or fails a check, or the
\* namespace, the project or the shoot is missing or fails a check, or a PEM block
\* is not a CA certificate, the CA Reconcile returns with no entry for the request
\* in the mapping, without the store entry the mapping pointed to, with a nil
\* error and an empty result.
C5_CAFailureRemovesMapping ==
    [][\A req \in ConfigMapRequests :
           (CAStepped(req) /\ CAFailsNow(req)) =>
               /\ MappingKey(req) \notin DOMAIN storeMapping'
               /\ MappingKey(req) \in DOMAIN storeMapping
                      => storeMapping[MappingKey(req)] \notin DOMAIN caStore'
               /\ caRun'[req].pc = "returned"
               /\ caRun'[req].result = noResult]_vars

\* the configmap is gone, and a Reconcile has removed the entry an earlier
\* Reconcile had written and the mapping to it
C5_Witness ==
    /\ caRequest \notin DOMAIN configmaps
    /\ caRun[caRequest].pc = "returned"
    /\ caRun[caRequest].result = noResult
    /\ caRun[caRequest].held
    /\ caStore = EmptyMap
    /\ storeMapping = EmptyMap

\* C6: when a read of the control plane fails with an error other than NotFound,
\* either Reconcile returns the error, the store and the mapping are as they were,
\* and the controller puts the request back on the queue; a step that does not
\* return does not write either.
C6_GetErrorLeavesStores ==
    [][/\ \A name \in SecretNames :
              /\ (OIDCStepped(name) /\ OIDCErrNow(name)) =>
                     /\ oidStore' = oidStore
                     /\ oidRun'[name].pc = "returned"
                     /\ oidRun'[name].result.err
              /\ (OIDCStepped(name) /\ oidRun'[name].pc # "returned") => oidStore' = oidStore
              /\ (oidRun[name].pc = "returned" /\ oidRun[name].result.err
                    /\ oidRun'[name].pc = "idle") => name \in oidQueue'
       /\ \A req \in ConfigMapRequests :
              /\ (CAStepped(req) /\ CAErrNow(req)) =>
                     /\ caStore' = caStore
                     /\ storeMapping' = storeMapping
                     /\ caRun'[req].pc = "returned"
                     /\ caRun'[req].result.err
              /\ (CAStepped(req) /\ caRun'[req].pc # "returned") =>
                     caStore' = caStore /\ storeMapping' = storeMapping
              /\ (caRun[req].pc = "returned" /\ caRun[req].result.err
                    /\ caRun'[req].pc = "idle") => req \in caQueue']_vars

\* both Reconciles have returned an error and both stores still hold their entry
C6_Witness ==
    /\ oidRun[secretName].pc = "returned"
    /\ oidRun[secretName].result.err
    /\ secretName \in DOMAIN oidStore
    /\ caRun[caRequest].pc = "returned"
    /\ caRun[caRequest].result.err
    /\ MappingKey(caRequest) \in DOMAIN storeMapping
    /\ storeMapping[MappingKey(caRequest)] \in DOMAIN caStore

\* C9: when the secret, the project, the shoot and the documents pass every check,
\* Reconcile returns with the entry under the name holding the openid-config and
\* the jwks of the secret as they are, in place of what the store held, with a nil
\* error and RequeueAfter = ResyncPeriod.
C9_OIDCSuccessWrites ==
    [][\A name \in SecretNames :
           (OIDCStepped(name) /\ oidRun[name].pc = "getShoot"
              /\ ~OIDCErrNow(name) /\ ~OIDCFailsNow(name)) =>
               /\ name \in DOMAIN oidStore'
               /\ oidStore'[name].Config = oidRun[name].secret.Data[openidConfigKey]
               /\ oidStore'[name].JWKS = oidRun[name].secret.Data[jwksKey]
               /\ oidRun'[name].pc = "returned"
               /\ oidRun'[name].result = resyncResult]_vars

\* a Reconcile has replaced the entry the store held by the other openid-config
C9_Witness ==
    /\ oidRun[secretName].pc = "returned"
    /\ oidRun[secretName].result = resyncResult
    /\ oidRun[secretName].held
    /\ secretName \in DOMAIN oidStore
    /\ oidStore[secretName] = [Config |-> CfgHttpsOther, JWKS |-> JwksPublic]

\* C10: when the configmap, the namespace, the project, the shoot and the PEM
\* blocks pass every check, the CA Reconcile returns with the store holding, under
\* p--shootUID (p the project label of the namespace, shootUID the shoot-uid label
\* of the configmap), the JSON object whose member certs is the text of ca.crt,
\* with the request mapped to p--shootUID, a nil error and RequeueAfter =
\* ResyncPeriod.
C10_CASuccessWrites ==
    [][\A req \in ConfigMapRequests :
           (CAStepped(req) /\ caRun[req].pc = "getShoot"
              /\ ~CAErrNow(req) /\ ~CAFailsNow(req)) =>
               LET key == caRun[req].projectName \o <<"-", "-">>
                              \o caRun[req].configmap.Labels[LabelShootUID]
                   text == caRun[req].configmap.Data[DataKeyCertificateCA]
               IN  /\ key \in DOMAIN caStore'
                   /\ caStore'[key] =
                          [CABundle |-> <<"{\"certs\":", [jsonString |-> text], "}">>]
                   /\ MappingKey(req) \in DOMAIN storeMapping'
                   /\ storeMapping'[MappingKey(req)] = key
                   /\ caRun'[req].pc = "returned"
                   /\ caRun'[req].result = resyncResult]_vars

\* a Reconcile has written the bundle of two blocks under abc--7a25a9b8
C10_Witness ==
    /\ caRun[caRequest].pc = "returned"
    /\ caRun[caRequest].result = resyncResult
    /\ caKey \in DOMAIN caStore
    /\ caStore[caKey] =
           [CABundle |-> <<"{\"certs\":", [jsonString |-> <<caBlock, secondCABlock>>], "}">>]
    /\ storeMapping = (MappingKey(caRequest) :> caKey)

\* the control plane holds a configmap that passes every check of the CA
\* reconciler, with its namespace, project and shoot, and resolves to p--uid
CASourceOf(projName, uid) ==
    \E req \in DOMAIN configmaps :
        LET configmap == configmaps[req]
            labels == configmap.Labels
            key == <<labels[LabelShootName], req.Namespace>>
            blocks == Blocks(configmap.Data[DataKeyCertificateCA])
        IN  /\ ~configmap.DeletionTimestamp
            /\ DataKeyCertificateCA \in DOMAIN configmap.Data
            /\ configmap.Data[DataKeyCertificateCA] # <<>>
            /\ {LabelDiscoveryPublic, LabelUpdateRestriction, LabelShootName, LabelShootUID}
                   \subseteq DOMAIN labels
            /\ labels[LabelDiscoveryPublic] = <<"shoot-ca">>
            /\ labels[LabelUpdateRestriction] = <<"true">>
            /\ req.Namespace \in DOMAIN namespaces
            /\ ProjectNameLabel \in DOMAIN namespaces[req.Namespace].Labels
            /\ namespaces[req.Namespace].Labels[ProjectNameLabel] = projName
            /\ projName \in DOMAIN projects
            /\ projects[projName].Namespace = {req.Namespace}
            /\ key \in DOMAIN shoots
            /\ shoots[key].UID = labels[LabelShootUID]
            /\ labels[LabelShootUID] = uid
            /\ \A i \in 1..Len(blocks) : GoodBlock(blocks[i])

\* the control plane holds the secret of the name, passing every check of the OIDC
\* reconciler, with its project and shoot
OIDCSourceOf(name) ==
    /\ name \in DOMAIN secrets
    /\ ~SecretFails(secrets[name], name)
    /\ ~PayloadFails(secrets[name])
    /\ LET labels == secrets[name].Labels
           key == <<labels[LabelShootName], labels[LabelShootNamespace]>>
       IN  /\ labels[ProjectNameLabel] \in DOMAIN projects
           /\ projects[labels[ProjectNameLabel]].Namespace = {labels[LabelShootNamespace]}
           /\ key \in DOMAIN shoots
           /\ name = labels[ProjectNameLabel] \o <<"-", "-">> \o shoots[key].UID
           /\ AnnotationAuthenticationIssuer \in DOMAIN shoots[key].Annotations
           /\ shoots[key].Annotations[AnnotationAuthenticationIssuer] = <<"managed">>

\* The OIDC half of C7, under FairOIDCSpec: when, from some point on, the reads
\* succeed and the secret of a name passes the checks no more, the entry under
\* the name is removed and stays removed.
StaleOIDCEntryRemoved ==
    \A name \in SecretNames :
        <>[](apiErr = "none" /\ ~OIDCSourceOf(name)) => <>[](name \notin DOMAIN oidStore)

\* The same without the assumption on the reads: it fails, for a Reconcile that
\* meets an error of the API server leaves the entry where it is.
StaleOIDCEntryRemovedWhateverTheReads ==
    \A name \in SecretNames :
        <>[](~OIDCSourceOf(name)) => <>[](name \notin DOMAIN oidStore)

\* the project names and shoot UIDs a store key of the model is made of
ProjectNames == {projectName, <<"xyz">>}
ShootUIDs == {shootUID, otherUID}

\* C7: when, from some point on, the reads of the control plane succeed and no
\* configmap passes the checks for p--uid any more (the source is gone, is being
\* deleted, has lost the selection labels, or project, namespace and shoot UID no
\* longer agree with the key), the entry under p--uid is removed and stays removed.
C7_StaleCAEntryRemoved ==
    \A projName \in ProjectNames : \A uid \in ShootUIDs :
        <>[](apiErr = "none" /\ ~CASourceOf(projName, uid))
            => <>[](projName \o <<"-", "-">> \o uid \notin DOMAIN caStore)

\* C8: a request answered 200 returns the payload a Reconcile had validated, and
\* when, from some point on, the reads of the control plane succeed and no source
\* passes the checks for p--uid any more, requests for p--uid stop being answered 200.
C8_HitHasValidSource ==
    /\ [](\A projName \in ProjectNames : \A uid \in ShootUIDs :
              LET key == projName \o <<"-", "-">> \o uid
                  answer == CAStoreRequest(caStore, NewRecorder(""),
                                           Request("GET", "cluster-ca", projName, uid))
              IN  answer.status = 200 =>
                      /\ key \in DOMAIN caProv
                      /\ answer.body =
                             << <<"{\"certs\":",
                                  [jsonString |-> caProv[key].configmap.Data[DataKeyCertificateCA]],
                                  "}">> >>
                      /\ \A i \in 1..Len(Blocks(caProv[key].configmap.Data[DataKeyCertificateCA])) :
                             GoodBlock(Blocks(caProv[key].configmap.Data[DataKeyCertificateCA])[i]))
    /\ \A projName \in ProjectNames : \A uid \in ShootUIDs :
           <>[](apiErr = "none" /\ ~CASourceOf(projName, uid))
               => <>[](CAStoreRequest(caStore, NewRecorder(""),
                                      Request("GET", "cluster-ca", projName, uid)).status # 200)

(***************************************************************************)
(* The HTTP server.  A step that serves a request adds one exchange to      *)
(* served; the stores it read are the stores of the state it starts in.    *)
(***************************************************************************)
\* the exchanges the step adds
Exchanges == served' \ served

ContentRoutes == {"openid-configuration", "jwks", "cluster-ca"}
ReadMethods == {"GET", "HEAD"}
IsUUID(text) == text \in {shootUID, otherUID}
HSTS == "Strict-Transport-Security"

\* the values a response carries under a header name
Values(w, name) == IF name \in DOMAIN w.header THEN w.header[name] ELSE <<>>

\* the store a content route reads, the key of a request, and the field served
RouteStore(r) == IF r.pattern = "cluster-ca" THEN caStore ELSE oidStore
RouteKey(r) == r.projectName \o <<"-", "-">> \o r.shootUID
RouteField(r) ==
    LET entry == RouteStore(r)[RouteKey(r)]
    IN  CASE r.pattern = "cluster-ca" -> entry.CABundle
          [] r.pattern = "jwks" -> entry.JWKS
          [] OTHER -> entry.Config

\* a response that is the JSON error document of a status
IsErrorDocument(w, status, body) ==
    /\ w.status = status
    /\ Values(w, "Content-Type") = <<"application/json">>
    /\ w.body = <<body>>

\* C11: a GET or HEAD request to a content route with a UUID whose key is in the
\* store is answered 200, Content-Type application/json, Cache-Control public,
\* max-age=3600, and the body is the route's field of the entry under that key.
C11_HitServesEntryField ==
    [][\A x \in Exchanges :
           (/\ x.request.method \in ReadMethods
            /\ x.request.pattern \in ContentRoutes
            /\ IsUUID(x.request.shootUID)
            /\ RouteKey(x.request) \in DOMAIN RouteStore(x.request))
           => /\ x.result.status = 200
              /\ Values(x.result, "Content-Type") = <<"application/json">>
              /\ Values(x.result, "Cache-Control") = <<"public, max-age=3600">>
              /\ x.result.body = <<RouteField(x.request)>>]_vars

\* a HEAD request for the JWKS of the shoot was answered 200 with the JWKS a
\* Reconcile had stored, which is not the openid configuration stored with it
C11_Witness ==
    \E x \in served :
        /\ x.request.method = "HEAD"
        /\ x.request.pattern = "jwks"
        /\ x.result.status = 200
        /\ RouteKey(x.request) \in DOMAIN oidStore
        /\ x.result.body = <<oidStore[RouteKey(x.request)].JWKS>>
        /\ oidStore[RouteKey(x.request)].JWKS # oidStore[RouteKey(x.request)].Config

WithoutAllowMethods(x) ==
    LET w == SetHSTS(x.recorder, x.request).w
    IN  CASE x.request.pattern = "cluster-ca" -> CAStoreRequest(caStore, w, x.request)
          [] x.request.pattern = "jwks" -> StoreRequest(oidStore, "JWKS", w, x.request)
          [] OTHER -> StoreRequest(oidStore, "Config", w, x.request)

\* C13: a request to a content route with a method other than GET and HEAD is
\* answered 405, Content-Type application/json, with the method not allowed
\* document, and the store is not read; with GET or HEAD the response is the one
\* of the wrapped handler, AllowMethods adding nothing.
C13_MethodNotAllowed ==
    [][\A x \in Exchanges :
           x.request.pattern \in ContentRoutes
           => IF x.request.method \in ReadMethods
              THEN x.result = WithoutAllowMethods(x)
              ELSE /\ IsErrorDocument(x.result, 405,
                                      "{\"code\":405,\"message\":\"method not allowed\"}")
                   /\ x.result.read = <<>>]_vars

\* a POST for the openid configuration of a stored entry was answered 405
C13_Witness ==
    \E x \in served :
        /\ x.request.method = "POST"
        /\ x.request.pattern = "openid-configuration"
        /\ RouteKey(x.request) \in DOMAIN oidStore
        /\ x.result.status = 405

C16_HandlersOnlyRead ==
    [][Exchanges # {} => UNCHANGED <<oidStore, caStore, storeMapping>>]_vars

\* a request was answered 200 from an entry the store still holds
C16_Witness ==
    \E x \in served :
        /\ x.result.status = 200
        /\ x.request.pattern = "openid-configuration"
        /\ x.result.read = <<RouteKey(x.request)>>
        /\ RouteKey(x.request) \in DOMAIN oidStore

(***************************************************************************)
(* The store under concurrent use.                                         *)
(***************************************************************************)
\* the bytes of the two buffers of a Data
ValueOf(h, data) == [Config |-> Bytes(h, data.Config), JWKS |-> Bytes(h, data.JWKS)]

\* the plain map the writes and deletes of a log make, in their order
RECURSIVE Replay(_)
Replay(l) ==
    IF l = <<>>
    THEN EmptyMap
    ELSE LET before == Replay(SubSeq(l, 1, Len(l) - 1))
             last == l[Len(l)]
         IN  IF last.op = "Write"
             THEN [k \in DOMAIN before \cup {last.key} |->
                      IF k = last.key THEN last.value ELSE before[k]]
             ELSE [k \in DOMAIN before \ {last.key} |-> before[k]]

\* every key of the store holds the bytes last written under it
StoreHoldsWritten(h, e, l) ==
    /\ DOMAIN e = DOMAIN Replay(l)
    /\ \A k \in DOMAIN e : ValueOf(h, e[k]) = Replay(l)[k]

\* the step in which the caller overwrites the buffers of its last call, an op
Overwrites(g, op) ==
    /\ goroutines[g].op = op
    /\ goroutines[g].pc = "returned"
    /\ goroutines'[g].pc = "mutated"

Quiescent(g) == goroutines[g].pc \in {"idle", "returned", "mutated"}

\* C17: when a caller overwrites the bytes of a value Read returned to it, every
\* key of the store still holds the bytes that were written under it, so that a
\* Read that follows returns them.
C17_ReadReturnsCopy ==
    [][\A g \in Goroutines :
           Overwrites(g, "Read") => StoreHoldsWritten(heap', entries', log')]_vars

\* a caller has overwritten what Read returned for a key that is still stored
C17_Witness ==
    \E g \in Goroutines :
        /\ goroutines[g].op = "Read"
        /\ goroutines[g].pc = "mutated"
        /\ ValueOf(heap, goroutines[g].d).Config = "overwritten"
        /\ goroutines[g].key \in DOMAIN entries
        /\ ValueOf(heap, entries[goroutines[g].key]) \in Payloads

\* C18: when the caller of Write(k, v) overwrites the buffers of v after the
\* call, every key of the store still holds the bytes written under it: k holds
\* the bytes v had when Write was called.
C18_WriteStoresCopy ==
    [][\A g \in Goroutines :
           Overwrites(g, "Write") => StoreHoldsWritten(heap', entries', log')]_vars

\* a caller has overwritten the value it passed to the Write that took effect
\* last, and the key holds the bytes passed
C18_Witness ==
    \E g \in Goroutines :
        /\ goroutines[g].op = "Write"
        /\ goroutines[g].pc = "mutated"
        /\ ValueOf(heap, goroutines[g].data).JWKS = "overwritten"
        /\ log # <<>>
        /\ log[Len(log)] = [op |-> "Write", key |-> goroutines[g].key,
                            value |-> goroutines[g].value]
        /\ ValueOf(heap, entries[goroutines[g].key]) = goroutines[g].value

\* C19: with goroutines calling Write, Read, Delete and Len in any interleaving,
\* every call returns; what a Read returns for a key is absent or the two buffers
\* of one Write to that key; and when no call is in progress the store has as
\* many entries as keys were written and not deleted after.
C19_ConcurrentUseIsSafe ==
    /\ \A g \in Goroutines : ~Quiescent(g) ~> goroutines[g].pc = "returned"
    /\ [](\A g \in Goroutines :
              (/\ goroutines[g].op = "Read"
               /\ goroutines[g].pc \in {"unlock", "returned"})
              => IF goroutines[g].ok
                 THEN \E i \in 1..Len(log) :
                          /\ log[i].op = "Write"
                          /\ log[i].key = goroutines[g].key
                          /\ log[i].value = ValueOf(heap, goroutines[g].d)
                 ELSE goroutines[g].d = zeroData)
    /\ []((\A g \in Goroutines : Quiescent(g))
              => StoreLen(entries) = Cardinality(DOMAIN Replay(log)))

\* two goroutines have made all their calls: both payloads were written under
\* one key, and a Read of that key returned one of them whole
C19_Witness ==
    /\ \A g \in Goroutines : goroutines[g].pc = "returned" /\ goroutines[g].n = MaxCalls
    /\ \E g \in Goroutines : \E i, j \in 1..Len(log) :
           /\ goroutines[g].op = "Read"
           /\ goroutines[g].ok
           /\ ValueOf(heap, goroutines[g].d) \in Payloads
           /\ log[i].op = "Write" /\ log[j].op = "Write"
           /\ log[i].key = goroutines[g].key /\ log[j].key = goroutines[g].key
           /\ log[i].value # log[j].value

\* C20: the store is the plain map its writes and deletes make.  A Read returns
\* the value of the last Write to its key not followed by a Delete, or the zero
\* value and false; Len returns the number of keys present; a Write to a key
\* that is present replaces its value, leaves the number of keys and every other
\* key as they were.
C20_StoreRefinesMap ==
    [][\A g \in Goroutines :
           LET call == goroutines[g]
               after == goroutines'[g]
               map == Replay(log)
           IN  /\ (call.op = "Read" /\ call.pc = "loadJWKS" /\ after.pc = "unlock")
                  => /\ after.ok = (call.key \in DOMAIN map)
                     /\ IF after.ok
                        THEN ValueOf(heap', after.d) = map[call.key]
                        ELSE after.d = zeroData
               /\ (call.op = "Len" /\ call.pc = "len" /\ after.pc = "unlock")
                  => after.len = Cardinality(DOMAIN map)
               /\ (call.op = "Write" /\ call.pc = "store" /\ after.pc = "unlock")
                  => /\ ValueOf(heap', entries'[call.key]) = call.value
                     /\ call.key \in DOMAIN entries => StoreLen(entries') = StoreLen(entries)
                     /\ \A k \in StoreKeys \ {call.key} :
                            /\ (k \in DOMAIN entries') = (k \in DOMAIN entries)
                            /\ k \in DOMAIN entries
                               => ValueOf(heap', entries'[k]) = ValueOf(heap, entries[k])]_vars

\* a Read has returned the second of two values written under its key, while
\* another key was deleted
C20_Witness ==
    \E g \in Goroutines :
        /\ goroutines[g].op = "Read"
        /\ goroutines[g].pc = "returned"
        /\ goroutines[g].ok
        /\ Len(log) = 3
        /\ log[1].op = "Write" /\ log[1].key = goroutines[g].key
        /\ log[2].op = "Delete" /\ log[2].key # goroutines[g].key
        /\ log[3].op = "Write" /\ log[3].key = goroutines[g].key
        /\ log[3].value # log[1].value
        /\ ValueOf(heap, goroutines[g].d) = log[3].value

\* C21: Delete(k) of an absent key changes nothing: every entry stays, with its
\* bytes, and Len is as before; and after any Delete(k) a second Delete(k) leaves
\* the store as the first left it.
C21_DeleteIdempotent ==
    [][\A g \in Goroutines :
           LET call == goroutines[g]
           IN  (call.op = "Delete" /\ call.pc = "delete" /\ goroutines'[g].pc = "unlock")
               => /\ call.key \notin DOMAIN entries
                     => /\ entries' = entries
                        /\ StoreLen(entries') = StoreLen(entries)
                        /\ \A k \in DOMAIN entries :
                               ValueOf(heap', entries'[k]) = ValueOf(heap, entries[k])
                  /\ call.key \notin DOMAIN entries'
                  /\ Delete(entries', call.key) = entries'
                  /\ \A k \in DOMAIN entries \ {call.key} :
                         /\ k \in DOMAIN entries'
                         /\ ValueOf(heap', entries'[k]) = ValueOf(heap, entries[k])]_vars

\* a key was deleted twice in a row while another key stays in the store
C21_Witness ==
    \E i \in 1..(Len(log) - 1) :
        /\ log[i].op = "Delete"
        /\ log[i + 1].op = "Delete"
        /\ log[i + 1].key = log[i].key
        /\ Len(log) = i + 1
        /\ \E k \in DOMAIN entries : k # log[i].key /\ ValueOf(heap, entries[k]) \in Payloads
        /\ \A g \in Goroutines : Quiescent(g)

\* C22: NewStore(nil) returns ErrNoCopyFunc and no store, MustNewStore(nil)
\* panics with it, and with a copy function either returns, without error or
\* panic, a store with no entries (Len() = 0); the goroutines get a store to call
\* only from a construction that returned one.
C22_ConstructionNeedsCopyFunc ==
    /\ [][/\ Construct("NewStore", "nil")
             => /\ constructed'.err = ErrNoCopyFunc
                /\ constructed'.store = <<>>
                /\ constructed'.panic = "nil"
          /\ Construct("MustNewStore", "nil")
             => /\ constructed'.panic = ErrNoCopyFunc
                /\ constructed'.store = <<>>
          /\ \A constructor \in {"NewStore", "MustNewStore"} :
             \A f \in CopyFuncs \ {"nil"} :
                 Construct(constructor, f)
                 => /\ constructed'.err = "nil"
                    /\ constructed'.panic = "nil"
                    /\ Len(constructed'.store) = 1
                    /\ constructed'.store[1].copyFunc = f
                    /\ StoreLen(constructed'.store[1].store) = 0
                    /\ StoreLen(entries') = 0]_vars
    /\ [](\A g \in Goroutines :
              goroutines[g].pc # "idle"
              => constructed.copyFunc # "nil" /\ constructed.store # <<>>)

\* NewStore(nil) has returned its error and no store
C22_Witness ==
    /\ constructed.called
    /\ constructed.copyFunc = "nil"
    /\ constructed.err = ErrNoCopyFunc
    /\ constructed.store = <<>>
    /\ \A g \in Goroutines : goroutines[g] = idleCall

(***************************************************************************)
(* The workload identity handler.                                          *)
(***************************************************************************)
\* what the claims call a parseable URL with scheme https, a query, a fragment:
\* stated on the pieces of the URL; a query or a fragment is what follows its
\* separator
Parseable(rawURL) == \A i \in 1..Len(rawURL) : rawURL[i] # "\n"
IsHTTPS(rawURL) == rawURL # <<>> /\ rawURL[1] = "https://"
HasPart(rawURL, separator) == \E i \in 1..(Len(rawURL) - 1) : rawURL[i] = separator

\* the documents that are JSON of their kind, and the key sets with public keys only
ConfigsThatParse == OpenIDConfigs \ {CfgNotJSON}
KeySetsThatParse == KeySets \ {JwksNotJSON, JwksUnparsableKey}
KeySetsAllPublic == KeySetsThatParse \ {JwksWithPrivate}

AcceptablePreload(openIDConfig, jwks) ==
    /\ openIDConfig \in ConfigsThatParse
    /\ LET issuer == UnmarshalConfig(openIDConfig).Issuer
           jwksURI == UnmarshalConfig(openIDConfig).JWKSURI
       IN  /\ Parseable(issuer) /\ IsHTTPS(issuer)
           /\ ~HasPart(issuer, "?") /\ ~HasPart(issuer, "#")
           /\ Parseable(jwksURI) /\ IsHTTPS(jwksURI)
    /\ jwks \in KeySetsAllPublic

\* C23: New returns a handler, holding the two documents, exactly when the openid
\* configuration parses, its issuer is a parseable https URL without query and
\* fragment, its jwks_uri is a parseable https URL, the JWKS parses and all its
\* keys are public; otherwise it returns an error and no handler, and a workload
\* identity route is served only from a preload that was accepted.
C23_HandlerIffPreloadValid ==
    gardenHandler.called
    => /\ (gardenHandler.Handler # <<>>)
          <=> AcceptablePreload(gardenHandler.openIDConfig, gardenHandler.jwks)
       /\ gardenHandler.Handler # <<>>
          => /\ gardenHandler.err = "nil"
             /\ gardenHandler.Handler = <<[oidc |-> gardenHandler.openIDConfig,
                                           jwks |-> gardenHandler.jwks]>>
       /\ gardenHandler.Handler = <<>> => gardenHandler.err # "nil" /\ served = {}

\* New was given an issuer with a fragment and has returned its error
C23_Witness ==
    /\ gardenHandler.called
    /\ gardenHandler.openIDConfig = CfgIssuerFragment
    /\ gardenHandler.jwks = JwksPublic
    /\ gardenHandler.Handler = <<>>
    /\ gardenHandler.err = "issuer url must not contain fragment"

\* the bytes the handler was built with for the route of a request
Preloaded(r) ==
    IF r.pattern = "garden/openid-configuration"
    THEN gardenHandler.openIDConfig
    ELSE gardenHandler.jwks

\* C24: the workload identity handler answers every GET or HEAD request with
\* status 200, the bytes preloaded for the route, Content-Type application/json,
\* Cache-Control public, max-age=3600 and, as a shoot route does when the writer
\* carries none, Strict-Transport-Security max-age=31536000; includeSubDomains;
\* every other method with 405 and {"code":405,"message":"method not allowed"}.
C24_GardenRoutesServePreload ==
    [][\A x \in Exchanges :
           x.request \in GardenRequests
           => IF x.request.method \in ReadMethods
              THEN /\ x.result.status = 200
                   /\ x.result.body = <<Preloaded(x.request)>>
                   /\ Values(x.result, "Content-Type") = <<"application/json">>
                   /\ Values(x.result, "Cache-Control") = <<"public, max-age=3600">>
                   /\ Values(x.recorder, HSTS) = <<>>
                      => Values(x.result, HSTS) = <<"max-age=31536000; includeSubDomains">>
              ELSE IsErrorDocument(x.result, 405,
                                   "{\"code\":405,\"message\":\"method not allowed\"}")]_vars

(***************************************************************************)
(* The dynamic certificate.                                                *)
(***************************************************************************)
\* the contents of certFile and keyFile that are a keypair
ValidPairs ==
    {<< <<"leaf1">>, "key1" >>, << <<"leaf2">>, "key2" >>,
     << <<"leaf1", "intermediate">>, "key1" >>}

Constructed == dynCert.called /\ dynCert.err = "nil"

\* C25: once New has returned a DynamicCertificate, GetCertificate returns a
\* certificate that is not nil and a nil error, whatever the refresh goroutine
\* is doing and whatever its reloads made of the files.
C25_CertificateNeverNil ==
    /\ Constructed => dynCert.certificate # <<>>
    /\ \A h \in handshakes :
           /\ h.err = "nil"
           /\ h.certificate # <<>>
           /\ h.certificate[1].Certificate # <<>>

\* a handshake got a certificate after a reload had failed and while the next
\* reload is under way
C25_Witness ==
    /\ Constructed
    /\ refresher.pc = "readKey"
    /\ files.cert = <<"half">>
    /\ refresher.since = 2
    /\ handshakes = {[certificate |-> <<[Certificate |-> <<"leaf1">>, PrivateKey |-> "key1"]>>,
                      err |-> "nil"]}

\* C26: a reload that read from the two files what is no keypair changes nothing
\* of the DynamicCertificate and leaves the goroutine waiting for the next tick;
\* the certificate changes only to a keypair a reload has read, so that every
\* handshake gets a keypair that was loaded.
C26_FailedReloadKeepsCertificate ==
    /\ [][/\ (/\ refresher.pc = "readKey"
              /\ refresher'.pc # "readKey"
              /\ <<refresher.cert, files.key>> \notin ValidPairs)
             => /\ dynCert' = dynCert
                /\ refresher'.pc = "wait"
                /\ refresher'.err # "nil"
          /\ (Constructed /\ dynCert'.certificate # dynCert.certificate)
             => /\ <<refresher.cert, refresher.key>> \in ValidPairs
                /\ dynCert'.certificate = <<[Certificate |-> refresher.cert,
                                             PrivateKey |-> refresher.key]>>]_vars
    /\ [](\A h \in handshakes :
              <<h.certificate[1].Certificate, h.certificate[1].PrivateKey>> \in ValidPairs)

\* a reload has failed on the new certificate with the old key, and a handshake
\* after it was given the first certificate
C26_Witness ==
    /\ Constructed
    /\ refresher.pc = "wait"
    /\ refresher.err # "nil"
    /\ refresher.cert = <<"leaf2">>
    /\ refresher.key = "key1"
    /\ dynCert.certificate = <<[Certificate |-> <<"leaf1">>, PrivateKey |-> "key1"]>>
    /\ handshakes # {}

\* C27: when the two files hold a keypair and two ticks have been received since
\* they last changed, the certificate GetCertificate returns is the one of the
\* files; as long as the files were never rewritten it is the one New loaded.
C27_NewCertificateWithinTwoTicks ==
    Constructed
    => /\ (<<files.cert, files.key>> \in ValidPairs /\ refresher.since >= 2)
          => /\ dynCert.certificate[1].Certificate[1] = files.cert[1]
             /\ dynCert.certificate = <<[Certificate |-> files.cert, PrivateKey |-> files.key]>>
       /\ files.writes = 0
          => /\ dynCert.certificate = <<[Certificate |-> initialFiles.cert,
                                         PrivateKey |-> initialFiles.key]>>
             /\ \A h \in handshakes : h.certificate = dynCert.certificate

\* both files were rewritten with the second keypair, two ticks have passed, and
\* handshakes got the first certificate and then the second
C27_Witness ==
    /\ Constructed
    /\ files.cert = <<"leaf2">>
    /\ files.key = "key2"
    /\ refresher.since >= 2
    /\ dynCert.certificate = <<[Certificate |-> <<"leaf2">>, PrivateKey |-> "key2"]>>
    /\ Cardinality(handshakes) = 2

\* C29: once the context of the process is cancelled the refresh goroutine
\* receives no further tick: it begins no reload.
C29_CancellationStopsRefresh ==
    [][ctx.process => ~(refresher.pc = "wait" /\ refresher'.pc = "readCert")]_vars

(***************************************************************************)
(* run.                                                                    *)
(***************************************************************************)
TheOther(task) == CHOOSE other \in Tasks : other # task
HasReturned(task) == tasks[task].pc \in {"send", "deferred", "done"}

\* C28: when either task of run has returned, with an error or nil, the context
\* of the other is cancelled; run has returned only when both tasks have; its
\* result is the join of what the two returned, nil exactly when both returned
\* nil; and a task that has returned never waits for ever on its channel: run
\* returns.
C28_RunJoinsBothTasks ==
    /\ \A task \in Tasks : HasReturned(task) ~> ctx[TheOther(task)]
    /\ \A task \in Tasks : HasReturned(task) ~> main.pc = "returned"
    /\ [](main.pc = "returned"
              => /\ \A task \in Tasks : tasks[task].pc \in {"deferred", "done"}
                 /\ (main.result = <<>>) <=> (\A task \in Tasks : tasks[task].err = "nil")
                 /\ {main.result[i] : i \in 1..Len(main.result)}
                        = {tasks[task].err : task \in Tasks} \ {"nil"}
                 /\ Len(main.result)
                        = Cardinality({task \in Tasks : tasks[task].err # "nil"}))

\* the server failed first, the manager returned an error after its context was
\* cancelled, and run has returned both errors
C28_Witness ==
    /\ main.pc = "returned"
    /\ main.first = "srv"
    /\ main.result = <<"failed serving content", "manager failed">>
    /\ \A task \in Tasks : tasks[task].pc = "done"
    /\ ctx.mgr /\ ctx.srv /\ ~ctx.process

(***************************************************************************)
(* Two Reconciles of one key in a row                                      *)
(* (reconciler/openidmeta/metadata.go, reconciler/certificate).            *)
(*                                                                         *)
(* reconciled is a history variable.  It is armed with the count of the    *)
(* changes of the control plane just before a worker takes the key, and    *)
(* when the call has returned it records that count together with what the *)
(* call returned and what it left in the store: for a secret the entry of  *)
(* its name, for a configmap the whole store and the mapping.  A           *)
(* later Reconcile of the key is compared with the record, when the count  *)
(* is still the same: the control plane has not changed since before the   *)
(* recorded call started.  The steps of the reconcilers are the ones       *)
(* above; the history only orders them after its own steps.                *)
(***************************************************************************)
\* the watch delivers an event for the secret again: a duplicate, or a stale one
RepeatedSecretEvent(name) ==
    /\ name \notin oidQueue
    /\ oidQueue' = oidQueue \cup {name}
    /\ UNCHANGED <<controlPlane, serverVars, caVars, oidStore, oidProv, oidRun>>

\* the watch delivers an event for the configmap again
RepeatedConfigMapEvent(req) ==
    /\ req \notin caQueue
    /\ caQueue' = caQueue \cup {req}
    /\ UNCHANGED <<controlPlane, serverVars, oidVars, caStore, caProv, storeMapping, caRun>>

\* what is recorded of a Reconcile that has returned
Observation(from, result, store, mapping) ==
    [from |-> from, result |-> result, store |-> store, mapping |-> mapping]

\* what the store holds under the key: the Reconciles of the other secrets
\* leave it alone
EntryOf(store, key) == IF key \in DOMAIN store THEN <<store[key]>> ELSE <<>>

\* the Reconcile before the one armed was armed against the same control plane
Repeats(history) == history.last # <<>> /\ history.last[1].from = history.armed

\* the history leaves the program alone
OnlyObserved ==
    UNCHANGED <<controlPlane, oidVars, caVars, served, storeVars,
                gardenHandler, certVars, ctx, runVars>>

ArmSecret(name) ==
    /\ name \in oidQueue
    /\ oidRun[name].pc = "idle"
    /\ reconciled.oid[name].armed # changes
    /\ reconciled' = [reconciled EXCEPT !.oid[name].armed = changes]
    /\ OnlyObserved

ObserveSecret(name) ==
    /\ oidRun[name].pc = "returned"
    /\ reconciled.oid[name].armed # -1
    /\ reconciled' = [reconciled EXCEPT
                         !.oid[name] =
                             [armed |-> -1,
                              last |-> <<Observation(reconciled.oid[name].armed,
                                                     oidRun[name].result,
                                                     EntryOf(oidStore, name),
                                                     EmptyMap)>>]]
    /\ OnlyObserved

ArmConfigMap(req) ==
    /\ req \in caQueue
    /\ caRun[req].pc = "idle"
    /\ reconciled.ca[req].armed # changes
    /\ reconciled' = [reconciled EXCEPT !.ca[req].armed = changes]
    /\ OnlyObserved

ObserveConfigMap(req) ==
    /\ caRun[req].pc = "returned"
    /\ reconciled.ca[req].armed # -1
    /\ reconciled' = [reconciled EXCEPT
                         !.ca[req] =
                             [armed |-> -1,
                              last |-> <<Observation(reconciled.ca[req].armed,
                                                     caRun[req].result,
                                                     caStore, storeMapping)>>]]
    /\ OnlyObserved

\* no Reconcile is in flight: each call has returned or has not started
BetweenReconciles ==
    /\ \A name \in SecretNames : oidRun[name].pc \in {"idle", "returned"}
    /\ \A req \in ConfigMapRequests : caRun[req].pc \in {"idle", "returned"}

\* the control plane may change: every result has been taken
MayChange ==
    /\ changes < MaxObservedChanges
    /\ \A name \in SecretNames : oidRun[name].pc = "idle"
    /\ \A req \in ConfigMapRequests : caRun[req].pc = "idle"

\* the OIDC worker, each call armed before it starts and observed before its
\* result is taken
ObservedOIDCWorker(name) ==
    \/ ArmSecret(name)
    \/ BetweenReconciles /\ reconciled.oid[name].armed = changes /\ Start(name)
    \/ ReconcileSecret(name)
    \/ ReconcileProject(name)
    \/ ReconcileShoot(name)
    \/ ObserveSecret(name)
    \/ reconciled.oid[name].armed = -1 /\ Done(name)

\* the CA worker, in the same way
ObservedCAWorker(req) ==
    \/ ArmConfigMap(req)
    \/ BetweenReconciles /\ reconciled.ca[req].armed = changes /\ CAStart(req)
    \/ CAReconcileConfigMap(req)
    \/ CAReconcileNamespace(req)
    \/ CAReconcileProject(req)
    \/ CAReconcileShoot(req)
    \/ ObserveConfigMap(req)
    \/ reconciled.ca[req].armed = -1 /\ CADone(req)

\* Both controllers against a control plane that also repeats events.  The
\* Reconciles are taken one at a time, and the control plane changes between two
\* of them only: a change during a Reconcile ends the case the comparison is
\* about.
RepeatedNext ==
    \/ MayChange /\ SecretEnvironment
    \/ MayChange /\ SharedEnvironment
    \/ MayChange /\ ConfigMapEnvironment
    \/ \E name \in SecretNames : oidRun[name].pc = "idle" /\ RepeatedSecretEvent(name)
    \/ \E req \in ConfigMapRequests : caRun[req].pc = "idle" /\ RepeatedConfigMapEvent(req)
    \/ \E name \in SecretNames : ObservedOIDCWorker(name)
    \/ \E req \in ConfigMapRequests : ObservedCAWorker(req)
RepeatedSpec == Init /\ [][RepeatedNext]_vars

(***************************************************************************)
(* Claims about two Reconciles in a row.                                   *)
(***************************************************************************)
\* the step observes a Reconcile that repeats the one observed before it
SameAsBefore(before, after) ==
    (Repeats(before) /\ after.armed = -1)
        => /\ after.last[1].result = before.last[1].result
           /\ after.last[1].store = before.last[1].store
           /\ after.last[1].mapping = before.last[1].mapping

\* C30: for both reconcilers, when the control plane has not changed since before
\* the previous Reconcile of a key started, the next Reconcile of that key returns
\* the same result and leaves the store, and for the CA reconciler the mapping,
\* as the previous one left them.
C30_ReconcileTwiceAsOnce ==
    [][/\ \A name \in SecretNames :
              SameAsBefore(reconciled.oid[name], reconciled'.oid[name])
       /\ \A req \in ConfigMapRequests :
              SameAsBefore(reconciled.ca[req], reconciled'.ca[req])]_vars

\* both reconcilers have written their entry a second time against the same
\* control plane, and the two calls have returned
C30_Witness ==
    /\ Repeats(reconciled.oid[secretName])
    /\ reconciled.oid[secretName].last[1].store # <<>>
    /\ oidRun[secretName].pc = "returned"
    /\ oidRun[secretName].result = resyncResult
    /\ \E req \in ConfigMapRequests :
           /\ Repeats(reconciled.ca[req])
           /\ MappingKey(req) \in DOMAIN reconciled.ca[req].last[1].mapping
           /\ reconciled.ca[req].last[1].store # EmptyMap
           /\ caRun[req].pc = "returned"
           /\ caRun[req].result = resyncResult

(***************************************************************************)
(* Generic events (reconciler/openidmeta/add.go).                          *)
(*                                                                         *)
(* Create, update and delete events are part of the changes of the control *)
(* plane above; a generic event comes from outside the watch and changes   *)
(* no object.                                                              *)
(***************************************************************************)
\* GenericFunc of secretPredicate and of configmapPredicate, if it let events pass
GenericFuncPasses(e) == TRUE

\* GenericFunc of secretPredicate and of configmapPredicate
GenericFunc(e) == FALSE

GenericSecretEvent(name) ==
    /\ oidQueue' = Enqueue(oidQueue, name, GenericFunc(name))
    /\ UNCHANGED <<controlPlane, serverVars, caVars, oidStore, oidProv, oidRun>>

GenericConfigMapEvent(req) ==
    /\ caQueue' = Enqueue(caQueue, req, GenericFunc(req))
    /\ UNCHANGED <<controlPlane, serverVars, oidVars, caStore, caProv, storeMapping, caRun>>

\* Both controllers against a control plane that changes, and generic events.
WatchNext ==
    \/ Next
    \/ \E name \in SecretNames : GenericSecretEvent(name)
    \/ \E req \in ConfigMapRequests : GenericConfigMapEvent(req)
WatchSpec == Init /\ [][WatchNext]_vars

(***************************************************************************)
(* Claims about the watches.                                               *)
(***************************************************************************)
\* the selection labels, read off the object
SecretSelected(obj) ==
    \E key \in DOMAIN obj.Labels :
        key = "authentication.gardener.cloud/public-keys"
            /\ obj.Labels[key] = <<"serviceaccount">>

ConfigMapSelected(obj) ==
    /\ \E key \in DOMAIN obj.Labels :
           key = "discovery.gardener.cloud/public" /\ obj.Labels[key] = <<"shoot-ca">>
    /\ \E key \in DOMAIN obj.Labels :
           key = "gardener.cloud/update-restriction" /\ obj.Labels[key] = <<"true">>

\* the step queues the key exactly when an object of its event is selected
QueuedIff(key, queue, queueAfter, selected) ==
    key \in queueAfter <=> (key \in queue \/ selected)

\* what an event for a secret does to the queue of the OIDC controller
SecretEvents(name) ==
    LET was == name \in DOMAIN secrets
        is == name \in DOMAIN secrets'
    IN  CASE ~was /\ is ->
                QueuedIff(name, oidQueue, oidQueue', SecretSelected(secrets'[name]))
          [] was /\ ~is ->
                QueuedIff(name, oidQueue, oidQueue', SecretSelected(secrets[name]))
          [] was /\ is /\ secrets'[name] # secrets[name] ->
                QueuedIff(name, oidQueue, oidQueue',
                          SecretSelected(secrets[name]) \/ SecretSelected(secrets'[name]))
          [] OTHER ->
                oidRun' = oidRun => QueuedIff(name, oidQueue, oidQueue', FALSE)

\* what an event for a configmap does to the queue of the CA controller
ConfigMapEvents(req) ==
    LET was == req \in DOMAIN configmaps
        is == req \in DOMAIN configmaps'
    IN  CASE ~was /\ is ->
                QueuedIff(req, caQueue, caQueue', ConfigMapSelected(configmaps'[req]))
          [] was /\ ~is ->
                QueuedIff(req, caQueue, caQueue', ConfigMapSelected(configmaps[req]))
          [] was /\ is /\ configmaps'[req] # configmaps[req] ->
                QueuedIff(req, caQueue, caQueue',
                          ConfigMapSelected(configmaps[req])
                              \/ ConfigMapSelected(configmaps'[req]))
          [] OTHER ->
                caRun' = caRun => QueuedIff(req, caQueue, caQueue', FALSE)

\* the Reconcile that reads an object without the selection labels leaves no
\* entry for it
SecretEvicted(name) ==
    (/\ oidRun[name].pc = "getSecret"
     /\ oidRun'[name].pc # "getSecret"
     /\ apiErr # "secrets"
     /\ name \in DOMAIN secrets
     /\ ~SecretSelected(secrets[name]))
        => name \notin DOMAIN oidStore'

ConfigMapEvicted(req) ==
    (/\ caRun[req].pc = "getConfigMap"
     /\ caRun'[req].pc # "getConfigMap"
     /\ apiErr # "configmaps"
     /\ req \in DOMAIN configmaps
     /\ ~ConfigMapSelected(configmaps[req]))
        => /\ MappingKey(req) \notin DOMAIN storeMapping'
           /\ MapGet(storeMapping, MappingKey(req)) \notin DOMAIN caStore'

\* C31: a create or a delete event queues the request exactly when the object
\* carries the selection labels, an update event exactly when the old or the new
\* object carries them, and no other event queues it (a generic event never);
\* the Reconcile of an object relabelled away from the selection evicts its entry.
C31_EventsFilteredByLabels ==
    [][/\ \A name \in SecretNames : SecretEvents(name) /\ SecretEvicted(name)
       /\ \A req \in ConfigMapRequests : ConfigMapEvents(req) /\ ConfigMapEvicted(req)]_vars

\* the secret and the configmap were relabelled away from the selection while
\* their entries were in the stores, both requests were queued by the update, and
\* the two Reconciles have evicted the entries
C31_Witness ==
    /\ secretName \in DOMAIN secrets
    /\ ~SecretSelected(secrets[secretName])
    /\ oidRun[secretName].pc = "returned"
    /\ oidRun[secretName].held
    /\ secretName \notin DOMAIN oidStore
    /\ \E req \in ConfigMapRequests :
           /\ req \in DOMAIN configmaps
           /\ ~ConfigMapSelected(configmaps[req])
           /\ caRun[req].pc = "returned"
           /\ caRun[req].held
           /\ caStore = EmptyMap

(***************************************************************************)
(* Reconciles of two secrets in parallel                                   *)
(* (reconciler/openidmeta/metadata.go, add.go: MaxConcurrentReconciles).   *)
(*                                                                         *)
(* Two shoots of one project, each with its secret, so that the Reconciles *)
(* of the two names can both write.  The workers of the two names take     *)
(* their steps in any order; the control plane changes while no Reconcile  *)
(* is in flight, so that the calls that are compared read the same objects *)
(* in every order.                                                         *)
(***************************************************************************)
otherShootName == <<"other-shoot">>
otherSecretName == projectName \o <<"-", "-">> \o otherUID
ParallelNames == {secretName, otherSecretName}

\* the secret of the other shoot
otherSecret == Secret(With(goodLabels, LabelShootName, otherShootName), goodData, FALSE)

\* the secrets the control plane may hold under a name
ParallelSecrets(name) ==
    IF name = secretName
    THEN {goodSecret,
          Secret(goodLabels, With(goodData, openidConfigKey, CfgHttpsOther), FALSE),
          Secret(Without(goodLabels, LabelPublicKeys), goodData, FALSE)}
    ELSE {otherSecret,
          Secret(With(goodLabels, LabelShootName, otherShootName),
                 With(goodData, jwksKey, JwksWithPrivate), FALSE)}

\* the shoots the control plane may hold
ParallelShoots ==
    {Shoot(shootName, shootNamespace, shootUID, managedAnnotations),
     Shoot(shootName, shootNamespace, otherUID, managedAnnotations),
     Shoot(otherShootName, shootNamespace, otherUID, managedAnnotations),
     Shoot(otherShootName, shootNamespace, otherUID, EmptyMap)}

ParallelInit ==
    /\ secrets = (secretName :> goodSecret) @@ (otherSecretName :> otherSecret)
    /\ configmaps = EmptyMap
    /\ namespaces = EmptyMap
    /\ projects = (projectName :> Project(projectName, {shootNamespace}))
    /\ shoots = (ShootKey(shootName, shootNamespace)
                    :> Shoot(shootName, shootNamespace, shootUID, managedAnnotations))
                @@ (ShootKey(otherShootName, shootNamespace)
                    :> Shoot(otherShootName, shootNamespace, otherUID, managedAnnotations))
    /\ apiErr = "none"
    /\ changes = 0
    /\ oidStore = EmptyMap
    /\ oidProv = EmptyMap
    /\ oidQueue = {name \in DOMAIN secrets : isRelevantSecret(secrets[name])}
    /\ oidRun = [name \in ParallelNames |-> idleRun]
    /\ caStore = EmptyMap
    /\ caProv = EmptyMap
    /\ storeMapping = EmptyMap
    /\ caQueue = {}
    /\ caRun = [req \in ConfigMapRequests |-> idleCARun]
    /\ served = {}
    /\ heap = EmptyMap
    /\ entries = EmptyMap
    /\ mutex = [writer |-> 0, readers |-> {}]
    /\ goroutines = [g \in Goroutines |-> idleCall]
    /\ log = <<>>
    /\ constructed = notConstructed
    /\ gardenHandler = notLoaded
    /\ files = initialFiles
    /\ dynCert = noDynCert
    /\ refresher = idleRefresher
    /\ handshakes = {}
    /\ ctx = [process |-> FALSE, mgr |-> FALSE, srv |-> FALSE]
    /\ tasks = [t \in Tasks |-> idleTask]
    /\ main = idleMain
    /\ server = idleServer
    /\ reconciled = notReconciled

\* no Reconcile of the two names is in flight, and no result waits to be taken
NoneInFlight == \A name \in ParallelNames : oidRun[name].pc = "idle"

ParallelEnvironment ==
    \/ \E name \in ParallelNames : \E obj \in ParallelSecrets(name) : CreateSecret(name, obj)
    \/ \E name \in ParallelNames : \E obj \in ParallelSecrets(name) : UpdateSecret(name, obj)
    \/ \E name \in ParallelNames : DeleteSecret(name)
    \/ \E obj \in ParallelShoots : ApplyShoot(obj)
    \/ \E key \in DOMAIN shoots : DeleteShoot(key)
    \/ \E kind \in {"shoots", "none"} : SetAPIErr(kind)

ParallelNext ==
    \/ NoneInFlight /\ ParallelEnvironment
    \/ \E name \in ParallelNames : RepeatedSecretEvent(name)
    \/ \E name \in ParallelNames : OIDCWorker(name)
ParallelSpec == ParallelInit /\ [][ParallelNext]_vars

(***************************************************************************)
(* Claims about Reconciles in parallel.                                    *)
(***************************************************************************)
\* what the control plane asks the store to hold under the name
Projected(name) ==
    IF name \notin DOMAIN secrets THEN <<>>
    ELSE LET secret == secrets[name]
             labels == secret.Labels
         IN  IF SecretFails(secret, name) THEN <<>>
             ELSE LET key == <<labels[LabelShootName], labels[LabelShootNamespace]>>
                  IN  IF \/ labels[ProjectNameLabel] \notin DOMAIN projects
                         \/ projects[labels[ProjectNameLabel]].Namespace
                                # {labels[LabelShootNamespace]}
                         \/ key \notin DOMAIN shoots
                         \/ name # labels[ProjectNameLabel] \o <<"-", "-">> \o shoots[key].UID
                         \/ AnnotationAuthenticationIssuer \notin DOMAIN shoots[key].Annotations
                         \/ shoots[key].Annotations[AnnotationAuthenticationIssuer]
                                # <<"managed">>
                         \/ PayloadFails(secret)
                      THEN <<>>
                      ELSE <<[Config |-> secret.Data[openidConfigKey],
                              JWKS |-> secret.Data[jwksKey]]>>

\* the Reconciles of both names have returned without an error
BothReturned ==
    \A name \in ParallelNames :
        oidRun[name].pc = "returned" /\ ~oidRun[name].result.err

\* C32: the entry under a name changes only in the step in which the Reconcile of
\* that name returns, so a Reconcile leaves the entry of every other key as it
\* is, and the store holds no other key; and when the Reconciles of two names
\* have run in parallel against the same control plane and returned, the store
\* holds for each name what the control plane asks for, whatever the order of
\* their steps.
C32_ReconcileTouchesOwnKey ==
    /\ [][\A name \in ParallelNames :
              EntryOf(oidStore', name) # EntryOf(oidStore, name)
                  => OIDCStepped(name) /\ oidRun'[name].pc = "returned"]_vars
    /\ [](DOMAIN oidStore \subseteq ParallelNames)
    /\ [](BothReturned => \A name \in ParallelNames :
                              EntryOf(oidStore, name) = Projected(name))

\* both Reconciles have written, each its own entry, and the two entries differ
C32_Witness ==
    /\ BothReturned
    /\ DOMAIN oidStore = ParallelNames
    /\ oidStore[secretName] # oidStore[otherSecretName]
    /\ \A name \in ParallelNames : oidRun[name].held

(***************************************************************************)
(* Claims about the headers of the responses.                              *)
(***************************************************************************)
StoreRoutes == {"openid-configuration", "jwks", "cluster-ca"}

\* the names of the headers the handlers added to the ones the response writer
\* came with
HeadersAdded(s) == DOMAIN s.result.header \ DOMAIN s.recorder.header

ChainsDiffer(chain1, chain2) ==
    \/ Len(chain1) # Len(chain2)
    \/ \E i \in DOMAIN chain1 \cap DOMAIN chain2 : chain1[i] # chain2[i]

\* what GetCertificate returns: the pointer, and what it points to
Current == [ptr |-> dynCert.ptr, certificate |-> dynCert.certificate]

\* the step in which reloadCert, holding the lock, compares and returns
Renews == refresher.pc = "renew" /\ refresher'.pc = "wait"

\* C34: the refresh that has loaded a pair replaces the current certificate by
\* the loaded one, at a new address, exactly when the chain it loaded differs from
\* the current chain in length or in an element; when the chains are the same the
\* pointer and what it points to are after the refresh what they were before; and
\* nothing else changes what GetCertificate returns.
C34_RefreshReplacesOnlyOnDifference ==
    [][/\ Renews =>
              IF ChainsDiffer(refresher.cert, dynCert.certificate[1].Certificate)
              THEN /\ dynCert'.ptr # dynCert.ptr
                   /\ dynCert'.certificate
                          = <<[Certificate |-> refresher.cert, PrivateKey |-> refresher.key]>>
              ELSE Current' = Current
       /\ (Constructed /\ Current' # Current) => Renews]_vars

\* the certificate was replaced by the one of leaf2, and the refresh after that
\* one loaded the same chain and left it
C34_Witness ==
    /\ Constructed
    /\ dynCert.certificate[1].Certificate = <<"leaf2">>
    /\ dynCert.ptr = FreshAddress(FreshAddress(0))
    /\ refresher.pc = "wait"
    /\ refresher.err = "nil"
    /\ refresher.cert = <<"leaf2">>
    /\ refresher.since = TicksCounted
    /\ files.cert = <<"leaf2">>

(***************************************************************************)
(* Claims about GetCertificate next to the refresh.                        *)
(***************************************************************************)
\* GetCertificate would wait in RLock: the writer holds the lock or waits for it
ReadersWait == dynCert.lock \/ refresher.pc = "lock"

\* C35: GetCertificate and the refresh exclude each other: no handshake holds the
\* lock while the writer does, and the certificate is swapped only by the writer
\* holding the lock, so each call returns the certificate current before the
\* swap or the one after it; each certificate returned is a chain with the key of
\* its leaf, as one load read and validated them; and neither waits for ever: the
\* refresh that waits for the lock gets it, and GetCertificate is let in again.
C35_GetCertificateSerializable ==
    /\ [](~(dynCert.lock /\ dynCert.readers > 0))
    /\ [][(Constructed /\ Current' # Current) => dynCert.lock /\ dynCert.readers = 0]_vars
    /\ [][handshakes' # handshakes =>
              /\ dynCert.readers > 0
              /\ handshakes' \ handshakes \subseteq {[certificate |-> Current.certificate,
                                                     err |-> "nil"]}
              /\ Current' = Current]_vars
    /\ [](\A h \in handshakes : /\ h.certificate # <<>>
                                /\ <<h.certificate[1].Certificate,
                                      h.certificate[1].PrivateKey>> \in ValidPairs)
    /\ refresher.pc = "lock" ~> refresher.pc = "renew"
    /\ ReadersWait ~> ~ReadersWait

\* one handshake was given the certificate of leaf1 and another that of leaf2,
\* and now the refresh waits for the lock that a handshake holds
C35_Witness ==
    /\ \E h \in handshakes : h.certificate[1].Certificate = <<"leaf1">>
    /\ \E h \in handshakes : h.certificate[1].Certificate = <<"leaf2">>
    /\ refresher.pc = "lock"
    /\ dynCert.readers > 0

(***************************************************************************)
(* Claims about the mapping of the CA reconciler.                          *)
(***************************************************************************)
\* the store keys the mapping points to
MappedKeys == {storeMapping[mapKey] : mapKey \in DOMAIN storeMapping}

\* C36: every key of the CA store is the value of an entry of storeMapping; when
\* a Reconcile of a request maps it to another store key than before, the key it
\* was mapped to is not in the store afterwards.
C36_NoOrphanedCAEntries ==
    DOMAIN caStore \subseteq MappedKeys

(***************************************************************************)
(* Reconciles of two configmaps of one namespace                           *)
(* (reconciler/certificate/reconciler.go).                                 *)
(*                                                                         *)
(* The store key is made of the project label of the namespace and the     *)
(* shoot-uid label of the configmap, not of the name of the configmap: two *)
(* configmaps of one namespace that carry the labels of one shoot resolve  *)
(* to one store key.  The workers of the two requests take their steps in  *)
(* any order.                                                              *)
(***************************************************************************)
otherConfigMapName == <<"other-ca">>
otherCARequest == NamespacedName(shootNamespace, otherConfigMapName)
MappingRequests == {caRequest, otherCARequest}

\* the configmaps the control plane may hold under either name
MappingConfigMaps ==
    {goodConfigMap,
     ConfigMap(goodCMLabels, CAData(<<caBlock, secondCABlock>>), FALSE),
     ConfigMap(With(goodCMLabels, LabelShootUID, otherUID), CAData(<<caBlock>>), FALSE),
     ConfigMap(With(goodCMLabels, LabelDiscoveryPublic, <<"wrong">>), CAData(<<caBlock>>), FALSE)}

MappingInit ==
    /\ secrets = EmptyMap
    /\ configmaps \in {EmptyMap,
                       (caRequest :> goodConfigMap) @@ (otherCARequest :> goodConfigMap)}
    /\ namespaces = (shootNamespace
                       :> Namespace(shootNamespace, ProjectNameLabel :> projectName))
    /\ projects = (projectName :> Project(projectName, {shootNamespace}))
    /\ shoots = (ShootKey(shootName, shootNamespace)
                    :> Shoot(shootName, shootNamespace, shootUID, managedAnnotations))
    /\ apiErr = "none"
    /\ changes = 0
    /\ oidStore = EmptyMap
    /\ oidProv = EmptyMap
    /\ oidQueue = {}
    /\ oidRun = [name \in SecretNames |-> idleRun]
    /\ caStore = EmptyMap
    /\ caProv = EmptyMap
    /\ storeMapping = EmptyMap
    /\ caQueue = {req \in DOMAIN configmaps : isRelevantConfigMap(configmaps[req])}
    /\ caRun = [req \in MappingRequests |-> idleCARun]
    /\ served = {}
    /\ heap = EmptyMap
    /\ entries = EmptyMap
    /\ mutex = [writer |-> 0, readers |-> {}]
    /\ goroutines = [g \in Goroutines |-> idleCall]
    /\ log = <<>>
    /\ constructed = notConstructed
    /\ gardenHandler = notLoaded
    /\ files = initialFiles
    /\ dynCert = noDynCert
    /\ refresher = idleRefresher
    /\ handshakes = {}
    /\ ctx = [process |-> FALSE, mgr |-> FALSE, srv |-> FALSE]
    /\ tasks = [t \in Tasks |-> idleTask]
    /\ main = idleMain
    /\ server = idleServer
    /\ reconciled = notReconciled

MappingEnvironment ==
    \/ \E req \in MappingRequests : \E obj \in MappingConfigMaps : CreateConfigMap(req, obj)
    \/ \E req \in MappingRequests : \E obj \in MappingConfigMaps : UpdateConfigMap(req, obj)
    \/ \E req \in MappingRequests : DeleteConfigMap(req)
    \/ \E obj \in ShootVariants : ApplyShoot(obj)

MappingNext ==
    \/ MappingEnvironment
    \/ \E req \in MappingRequests : CAWorker(req)
MappingSpec == MappingInit /\ [][MappingNext]_vars

\* C37: every entry of storeMapping points to a key the CA store holds: a
\* deleteMapping for one request does not remove the store entry another
\* request is mapped to.
C37_MappingPointsIntoStore ==
    \A mapKey \in DOMAIN storeMapping : storeMapping[mapKey] \in DOMAIN caStore

(***************************************************************************)
(* Claims about the text of ca.crt.                                        *)
(***************************************************************************)
\* the text of ca.crt an entry of the CA store wraps
BundleText(data) == data.CABundle[2].jsonString

\* C38: every entry of the CA store wraps a text of ca.crt with at least one PEM
\* block, and each of its blocks is a CA certificate: a ca.crt that is not empty
\* and holds no PEM block produces no entry.
C38_EntryWrapsCertificate ==
    \A key \in DOMAIN caStore :
        /\ Blocks(BundleText(caStore[key])) # <<>>
        /\ \A i \in 1..Len(Blocks(BundleText(caStore[key]))) :
               GoodBlock(Blocks(BundleText(caStore[key]))[i])

(***************************************************************************)
(* Claims about the goroutine of runServer.                                *)
(***************************************************************************)
ListenSpec == RunInit /\ [][ListenNext]_vars

\* C39: the goroutine that listens is never left at its send on errCh: it is not
\* at the send when runServer has taken the branch of the cancelled context or
\* has returned, since nothing receives from errCh after that.
C39_ListenerTerminates ==
    ~(server.listener = "send" /\ server.pc \in {"shutdown", "returned"})

====
